---- MODULE Spec2Model ----
(***************************************************************************)
(* Model of SecureWipeService (src/main/services/secure-wipe.service.ts):  *)
(* the incremental JSON event parser and the process orchestrator.         *)
(*                                                                         *)
(* Text is a sequence of one-character strings.  The characters the        *)
(* scanner of parseEvents distinguishes are kept as they are: the braces,  *)
(* the double quote and the backslash.  Every other character of the       *)
(* child's output is one of a few letters, a digit, ':' ',' or a blank.    *)
(* Keys are abbreviated: "t" is type, "m" is message, and "n", "v", "r"    *)
(* are os_name, os_version and architecture.  The type values are "e"      *)
(* (error), "i" (info) and "d" (drive_list).                               *)
(***************************************************************************)
EXTENDS Integers, Sequences, FiniteSets, TLC

\* ------------------------------------------------------------------------
\* Bounds of the model
\* ------------------------------------------------------------------------
MaxSegs == 2        \* segments (objects, blanks, fragments) in a parsed stream
MaxOps == 2         \* operations started
MaxData == 2        \* chunks (stdout or stderr) the children deliver in all
MaxCancel == 1      \* cancel() calls

\* ------------------------------------------------------------------------
\* Program constants
\* ------------------------------------------------------------------------
Timeout == 300000   \* this.timeout, in ms

\* ------------------------------------------------------------------------
\* Characters
\* ------------------------------------------------------------------------
LB == "{"
RB == "}"
QT == "\""
BS == "\\"
WS == " "

IsDigit(c) == c \in {"0", "1"}

\* ------------------------------------------------------------------------
\* JSON.parse, as far as parseEvent uses it: a recogniser of JSON values
\* that also returns the members of the outermost object.
\* A result is [end |-> position after the value, 0 on a syntax error,
\*              mem |-> members of the value when it is an object].
\* ------------------------------------------------------------------------
Fail == [end |-> 0, mem |-> <<>>]

RECURSIVE SkipWs(_, _)
SkipWs(s, i) ==
    IF i <= Len(s) /\ s[i] = WS THEN SkipWs(s, i + 1) ELSE i

\* s[i] is the character after the opening quote; the result is the position
\* after the closing quote, 0 when the string is unterminated or holds a
\* backslash followed by a character that is no JSON escape.
RECURSIVE StringEnd(_, _)
StringEnd(s, i) ==
    IF i > Len(s) THEN 0
    ELSE IF s[i] = QT THEN i + 1
    ELSE IF s[i] = BS
         THEN IF i + 1 <= Len(s) /\ s[i + 1] \in {QT, BS}
              THEN StringEnd(s, i + 2)
              ELSE 0
    ELSE StringEnd(s, i + 1)

RECURSIVE NumberEnd(_, _)
NumberEnd(s, i) ==
    IF i <= Len(s) /\ IsDigit(s[i]) THEN NumberEnd(s, i + 1) ELSE i

RECURSIVE JsonValue(_, _)
RECURSIVE JsonMembers(_, _, _)

\* members of an object from position j (a key is expected there)
JsonMembers(s, j, acc) ==
    IF j > Len(s) \/ s[j] # QT THEN Fail
    ELSE LET k == StringEnd(s, j + 1) IN
      IF k = 0 THEN Fail
      ELSE LET c == SkipWs(s, k) IN
        IF c > Len(s) \/ s[c] # ":" THEN Fail
        ELSE LET v0 == SkipWs(s, c + 1)
                 v  == JsonValue(s, v0) IN
          IF v.end = 0 THEN Fail
          ELSE LET n   == SkipWs(s, v.end)
                   mem == Append(acc, [key |-> SubSeq(s, j + 1, k - 2),
                                       val |-> SubSeq(s, v0, v.end - 1)]) IN
            IF n > Len(s) THEN Fail
            ELSE IF s[n] = RB THEN [end |-> n + 1, mem |-> mem]
            ELSE IF s[n] = "," THEN JsonMembers(s, SkipWs(s, n + 1), mem)
            ELSE Fail

JsonValue(s, i) ==
    IF i > Len(s) THEN Fail
    ELSE IF s[i] = LB
         THEN LET j == SkipWs(s, i + 1) IN
              IF j <= Len(s) /\ s[j] = RB
              THEN [end |-> j + 1, mem |-> <<>>]
              ELSE JsonMembers(s, j, <<>>)
    ELSE IF s[i] = QT
         THEN [end |-> StringEnd(s, i + 1), mem |-> <<>>]
    ELSE IF IsDigit(s[i])
         THEN [end |-> NumberEnd(s, i), mem |-> <<>>]
    ELSE Fail

\* String.prototype.trim
RECURSIVE TrimRight(_)
TrimRight(s) ==
    IF Len(s) > 0 /\ s[Len(s)] = WS THEN TrimRight(SubSeq(s, 1, Len(s) - 1)) ELSE s

Trim(s) == LET i == SkipWs(s, 1) IN TrimRight(SubSeq(s, i, Len(s)))

\* JSON.parse(text): ok exactly when the whole text is one JSON value
JsonParse(text) ==
    LET i == SkipWs(text, 1)
        v == JsonValue(text, i) IN
    IF v.end # 0 /\ SkipWs(text, v.end) = Len(text) + 1
    THEN [ok |-> TRUE, mem |-> v.mem]
    ELSE [ok |-> FALSE, mem |-> <<>>]

\* parsed[key]: the value text of the last member with that key, <<>> when
\* the key is absent (undefined)
RECURSIVE Member(_, _)
Member(mem, key) ==
    IF mem = <<>> THEN <<>>
    ELSE IF mem[Len(mem)].key = key THEN mem[Len(mem)].val
    ELSE Member(SubSeq(mem, 1, Len(mem) - 1), key)

RECURSIVE HasKey(_, _)
HasKey(mem, key) ==
    mem # <<>> /\ (mem[Len(mem)].key = key \/ HasKey(SubSeq(mem, 1, Len(mem) - 1), key))

\* JavaScript truthiness of a value text
RECURSIVE AllZero(_)
AllZero(v) == v = <<>> \/ (v[1] = "0" /\ AllZero(Tail(v)))

Truthy(v) ==
    /\ v # <<>>
    /\ v # <<QT, QT>>
    /\ ~(IsDigit(v[1]) /\ AllZero(v))

\* the content of a string value, <<>> for the empty string (and for a value
\* that is no string: the model's children send string messages only)
StringContent(v) ==
    IF Len(v) >= 2 /\ v[1] = QT THEN SubSeq(v, 2, Len(v) - 1) ELSE <<>>

\* ------------------------------------------------------------------------
\* parseEvent: one candidate span to an event, or null
\* ------------------------------------------------------------------------
NoEvent == [ok |-> FALSE]

parseEvent(jsonStr) ==
    LET trimmed == Trim(jsonStr) IN
    IF trimmed = <<>> THEN NoEvent
    ELSE LET parsed == JsonParse(trimmed) IN
      IF ~parsed.ok THEN NoEvent
      ELSE [ok      |-> TRUE,
            src     |-> trimmed,
            kind    |-> IF /\ Truthy(Member(parsed.mem, <<"n">>))
                           /\ Truthy(Member(parsed.mem, <<"v">>))
                           /\ Truthy(Member(parsed.mem, <<"r">>))
                        THEN "SystemInfo" ELSE "SecureWipeEvent",
            hasType |-> HasKey(parsed.mem, <<"t">>),
            hasOsKeys |-> /\ HasKey(parsed.mem, <<"n">>)
                          /\ HasKey(parsed.mem, <<"v">>)
                          /\ HasKey(parsed.mem, <<"r">>),
            type    |-> StringContent(Member(parsed.mem, <<"t">>)),
            message |-> StringContent(Member(parsed.mem, <<"m">>))]

\* ------------------------------------------------------------------------
\* parseEvents: the scan of the accumulated buffer
\* ------------------------------------------------------------------------
\* line 298: braces are counted only outside strings
BraceCounted_NotStringAware(inString) == TRUE

BraceCounted(inString) == ~inString

\* line 314: what stays in the buffer after the object ending at i
Remainder_DropAll(buf, i) == <<>>

Remainder(buf, i) == SubSeq(buf, i + 1, Len(buf))

\* line 308: the candidate span
Candidate_Unclosed(buf, startIndex, i) == SubSeq(buf, startIndex, i - 1)

Candidate(buf, startIndex, i) == SubSeq(buf, startIndex, i)

\* The scanner between two characters: the buffer, the position, and the
\* locals startIndex, braceCount, inString, escapeNext and events.
Scanner(buf, i, startIndex, braceCount, inString, escapeNext, events) ==
    [buf |-> buf, i |-> i, startIndex |-> startIndex, braceCount |-> braceCount,
     inString |-> inString, escapeNext |-> escapeNext, events |-> events]

\* The body of the for loop (lines 281-319) at position i.  Positions are
\* 1-based: the code's index i is i - 1 here, and its startIndex 0 is 1.
LoopBody(buf, i, startIndex, braceCount, inString, escapeNext, events) ==
    LET char == buf[i] IN
      IF escapeNext
      THEN Scanner(buf, i + 1, startIndex, braceCount, inString, FALSE, events)
      ELSE IF char = BS
      THEN Scanner(buf, i + 1, startIndex, braceCount, inString, TRUE, events)
      ELSE IF char = QT
      THEN Scanner(buf, i + 1, startIndex, braceCount, ~inString, FALSE, events)
      ELSE IF BraceCounted(inString) /\ char = LB
      THEN Scanner(buf, i + 1, IF braceCount = 0 THEN i ELSE startIndex,
                   braceCount + 1, inString, FALSE, events)
      ELSE IF BraceCounted(inString) /\ char = RB
      THEN IF braceCount - 1 = 0
           THEN LET event == parseEvent(Candidate(buf, startIndex, i)) IN
                Scanner(Remainder(buf, i), 1, 1, 0, inString, FALSE,
                        IF event.ok THEN Append(events, event) ELSE events)
           ELSE Scanner(buf, i + 1, startIndex, braceCount - 1, inString,
                        FALSE, events)
      ELSE Scanner(buf, i + 1, startIndex, braceCount, inString, FALSE, events)

\* The for loop of lines 280-320, from the scanner s on.
RECURSIVE ScanLoop(_)
ScanLoop(s) ==
    IF s.i > Len(s.buf) THEN [buffer |-> s.buf, events |-> s.events]
    ELSE ScanLoop(LoopBody(s.buf, s.i, s.startIndex, s.braceCount, s.inString,
                           s.escapeNext, s.events))

\* parseEvents(data) on a service whose jsonBuffer is buffer: the events
\* returned and the buffer left behind
parseEvents(buffer, data) ==
    ScanLoop(Scanner(buffer \o data, 1, 1, 0, FALSE, FALSE, <<>>))


\* ------------------------------------------------------------------------
\* Texts a child writes to stdout
\* ------------------------------------------------------------------------
\* {"t":"i"}                an info event
OInfo == <<LB, QT, "t", QT, ":", QT, "i", QT, RB>>
\* {"t":"e","m":"a"}        an error event with message a
OErrA == <<LB, QT, "t", QT, ":", QT, "e", QT, ",", QT, "m", QT, ":", QT, "a", QT, RB>>
\* {"t":"e","m":"b"}        an error event with message b
OErrB == <<LB, QT, "t", QT, ":", QT, "e", QT, ",", QT, "m", QT, ":", QT, "b", QT, RB>>
\* {"t":"e","m":""}         an error event with an empty message
OErrEmpty == <<LB, QT, "t", QT, ":", QT, "e", QT, ",", QT, "m", QT, ":", QT, QT, RB>>
\* {"t":"d"}                a drive_list event
ODrives == <<LB, QT, "t", QT, ":", QT, "d", QT, RB>>
\* {"n":1, "v":1,"r":1}     a system description
OSys == <<LB, QT, "n", QT, ":", "1", ",", WS, QT, "v", QT, ":", "1", ",",
          QT, "r", QT, ":", "1", RB>>
\* {"m":"}\"{\\"}           a string holding } an escaped quote { and an
\*                          escaped backslash
OBrace == <<LB, QT, "m", QT, ":", QT, RB, BS, QT, LB, BS, BS, QT, RB>>
\* {"a":{"t":"e"}}          an object nested in an object
ONest == <<LB, QT, "a", QT, ":", LB, QT, "t", QT, ":", QT, "e", QT, RB, RB>>
\* a blank between objects
Blank == <<WS>>
\* malformed fragments: a stray closing brace, a stray quote, a balanced span
\* that is no JSON
JClose == <<RB>>
JQuote == <<QT>>
JBad == <<LB, "a", RB>>

Objects == {OInfo, OSys, OBrace, ONest}
Fragments == {JClose, JQuote, JBad}
Segments == Objects \cup {Blank} \cup Fragments

RECURSIVE Concat(_)
Concat(segs) == IF segs = <<>> THEN <<>> ELSE Head(segs) \o Concat(Tail(segs))

\* ------------------------------------------------------------------------
\* State
\* ------------------------------------------------------------------------
VARIABLES
    activeProcess,  \* SecureWipeService.activeProcess: 0 (null) or the operation whose child it is
    timeoutHandle,  \* SecureWipeService.timeoutHandle: 0 (null) or the operation that set the timer
    jsonBuffer,     \* SecureWipeService.jsonBuffer
    timers,         \* timeout timers that are armed, by the operation that armed them
    grace,          \* force-kill timers of cancel() that are armed, by the operation cancelled
    ops,            \* the operations started so far: closure state, child, promise, what was observed
    nOps,           \* number of operations started
    nCancel,        \* number of cancel() calls
    nData,          \* number of chunks delivered by the children
    pSegs,          \* parser harness: the segments the stream is made of
    pPos,           \* parser harness: characters of the stream fed so far
    pOut,           \* parser harness: the events returned so far, in order
    pCutEsc,        \* parser harness: a chunk ended right after an escaping backslash
    world,          \* the process environment: platform, user, tools on PATH, file system
    request,        \* the wipe request handed to wipeTargetWithPrivileges
    calls           \* the system calls made on behalf of wipe requests, in order

svars == <<activeProcess, timeoutHandle, timers, grace, ops, nOps, nCancel, nData>>
pvars == <<pSegs, pPos, pOut, pCutEsc>>
qvars == <<world, request, calls>>
vars == <<activeProcess, timeoutHandle, jsonBuffer, timers, grace, ops, nOps,
          nCancel, nData, pSegs, pPos, pOut, pCutEsc, world, request, calls>>

Ops == 1..MaxOps

\* ------------------------------------------------------------------------
\* Results and messages
\* ------------------------------------------------------------------------
\* An error message: text parts joined by newlines, or one of the fixed
\* messages with the value it carries.
NoError == [kind |-> "none", parts |-> <<>>, code |-> "0", ms |-> 0]
TextError(parts) == [kind |-> "text", parts |-> parts, code |-> "0", ms |-> 0]
\* `Process exited with code ${code}`
ExitError(code) == [kind |-> "Process exited with code", parts |-> <<>>, code |-> code, ms |-> 0]
\* `... timed out after ${this.timeout}ms`
TimeoutError == [kind |-> "timed out after", parts |-> <<>>, code |-> "0", ms |-> Timeout]
\* `Failed to start ...: ${error.message}` / `Elevated process error: ...`
ProcessError == [kind |-> "process error", parts |-> <<>>, code |-> "0", ms |-> 0]
NoSystemInfo == [kind |-> "No system info received", parts |-> <<>>, code |-> "0", ms |-> 0]
NoMethod == [kind |-> "No privilege escalation method available", parts |-> <<>>, code |-> "0", ms |-> 0]

\* errorMessage || `Process exited with code ${code}`
MessageOr(errorMessage, code) ==
    IF errorMessage # <<>> THEN TextError(errorMessage) ELSE ExitError(code)

\* by: the callback that settled the promise; exitCode: the code that callback
\* was given ("none" for a callback that is given no code)
Pending == [state |-> "pending", success |-> FALSE, error |-> NoError,
            privilegeError |-> FALSE, by |-> "none", exitCode |-> "none"]
Success(by, code) ==
    [state |-> "resolved", success |-> TRUE, error |-> NoError,
     privilegeError |-> FALSE, by |-> by, exitCode |-> code]
Failure(err, privErr, by, code) ==
    [state |-> "resolved", success |-> FALSE, error |-> err,
     privilegeError |-> privErr, by |-> by, exitCode |-> code]
Rejected(err, by, code) ==
    [state |-> "rejected", success |-> FALSE, error |-> err,
     privilegeError |-> FALSE, by |-> by, exitCode |-> code]

\* a promise settles once: later resolve/reject calls are ignored
Settle(result, new) == IF result.state = "pending" THEN new ELSE result

\* ------------------------------------------------------------------------
\* What an operation's sinks and child observe, in order
\* ------------------------------------------------------------------------
Emitted(e)  == [ch |-> "event", type |-> e.type, message |-> e.message]
Progress(e) == [ch |-> "onProgress", type |-> e.type, message |-> e.message]
Stderr(m)   == [ch |-> "stderr", type |-> <<>>, message |-> m]
Kill(sig)   == [ch |-> "kill", type |-> <<sig>>, message |-> <<>>]

CancelMessage == <<"Operation cancelled by user">>
cancelEvent == [type |-> <<"i">>, message |-> CancelMessage]

NoOp == [kind |-> "none", cb |-> FALSE, child |-> "none",
         hasError |-> FALSE, errorMessage |-> <<>>, payload |-> FALSE,
         result |-> Pending, log |-> <<>>, cancelled |-> FALSE]

Started(kind, cb) == [NoOp EXCEPT !.kind = kind, !.cb = cb, !.child = "running"]

\* the code passed to 'close': 0, or a code that is not 0 (a number, or null
\* for a child ended by a signal: the handlers only test code === 0)
ExitCodes == {"0", "1"}

\* what the wrapped executable writes in each mode; the head and the tail of
\* an info event are the two chunks of one object
InfoHead == SubSeq(OInfo, 1, 4)
InfoTail == SubSeq(OInfo, 5, Len(OInfo))
StdoutOf(kind) ==
    IF kind = "list" THEN {ODrives, OErrA}
    ELSE IF kind = "sysinfo" THEN {OSys, OErrA}
    ELSE {OErrA, OErrB, InfoHead, InfoTail}
StderrTexts == {<<"s">>, <<WS>>}

\* ------------------------------------------------------------------------
\* Init
\* ------------------------------------------------------------------------
ServiceInit ==
    /\ activeProcess = 0
    /\ timeoutHandle = 0
    /\ jsonBuffer = <<>>
    /\ timers = {}
    /\ grace = {}
    /\ ops = [o \in Ops |-> NoOp]
    /\ nOps = 0
    /\ nCancel = 0
    /\ nData = 0

\* no wipe request has been made
NoRequests ==
    /\ world = <<>>
    /\ request = <<>>
    /\ calls = <<>>

Init ==
    /\ ServiceInit
    /\ pSegs = <<>>
    /\ pPos = 0
    /\ pOut = <<>>
    /\ pCutEsc = FALSE
    /\ NoRequests

\* ------------------------------------------------------------------------
\* cleanup()
\* ------------------------------------------------------------------------
\* cleanup() without its last statement (line 938)
cleanup_KeepsBuffer ==
    /\ timers' = timers \ {timeoutHandle}
    /\ timeoutHandle' = 0
    /\ activeProcess' = 0
    /\ UNCHANGED jsonBuffer

cleanup ==
    /\ timers' = timers \ {timeoutHandle}
    /\ timeoutHandle' = 0
    /\ activeProcess' = 0
    /\ jsonBuffer' = <<>>

isActive == activeProcess # 0

\* ------------------------------------------------------------------------
\* Paths: a path is the sequence of its separators and names
\* ------------------------------------------------------------------------
SEP == "/"
WSEP == "\\"
UP == ".."
TILDE == "~"
NUL == "NUL"             \* the character \0
WINDEV == "\\\\.\\"      \* the prefix \\.\ of Windows device paths
Cwd == <<SEP, "tmp">>    \* process.cwd()

Includes(p, tok) == \E i \in 1..Len(p) : p[i] = tok
StartsWith(p, pre) == Len(p) >= Len(pre) /\ SubSeq(p, 1, Len(pre)) = pre
\* names that end in a digit (/\d+$/)
EndsInDigit(p) == Len(p) > 0 /\ p[Len(p)] \in {"sda1", "0"}

\* the names of a POSIX path, '.' and empty names dropped, '..' applied
RECURSIVE Normalized(_, _, _)
Normalized(p, i, acc) ==
    IF i > Len(p) THEN acc
    ELSE IF p[i] \in {SEP, "."} THEN Normalized(p, i + 1, acc)
    ELSE IF p[i] = UP
         THEN Normalized(p, i + 1,
                         IF acc = <<>> THEN acc ELSE SubSeq(acc, 1, Len(acc) - 1))
    ELSE Normalized(p, i + 1, Append(acc, p[i]))

RECURSIVE Joined(_, _)
Joined(names, sep) ==
    IF names = <<>> THEN <<>>
    ELSE <<sep, names[1]>> \o Joined(SubSeq(names, 2, Len(names)), sep)

\* path.resolve(filePath); on win32 the targets used are fully qualified
Resolve(p, platform) ==
    IF platform = "win32" THEN p
    ELSE LET full == IF Len(p) > 0 /\ p[1] = SEP THEN p ELSE Cwd \o <<SEP>> \o p
             names == Normalized(full, 1, <<>>) IN
         IF names = <<>> THEN <<SEP>> ELSE Joined(names, SEP)

\* path.isAbsolute(resolvedPath)
IsAbsolute(p, platform) ==
    IF platform = "win32"
    THEN Len(p) >= 2 /\ (p[1] = WINDEV \/ p[2] = WSEP)
    ELSE Len(p) > 0 /\ p[1] = SEP

\* path.dirname(targetPath)
Dirname(p, platform) ==
    LET sep == IF platform = "win32" THEN WSEP ELSE SEP
        cut == {i \in 1..Len(p) : p[i] = sep}
        last == IF cut = {} THEN 0 ELSE CHOOSE i \in cut : \A j \in cut : j <= i IN
    IF last = 0 THEN <<".">>
    ELSE IF last = 1 \/ (platform = "win32" /\ last = 2) THEN SubSeq(p, 1, last)
    ELSE SubSeq(p, 1, last - 1)

PathSep(platform) == IF platform = "win32" THEN WSEP ELSE SEP

\* SecureWipeUtils.isBlockDevice
isBlockDevice(filePath) ==
    \/ StartsWith(filePath, <<SEP, "dev", SEP>>)
    \/ StartsWith(filePath, <<WINDEV, "PhysicalDrive">>)
    \/ (Len(filePath) = 2 /\ filePath[1] = WINDEV /\ filePath[2] \in {"C:", "D:"})

\* ------------------------------------------------------------------------
\* The file system of a world: kind of each resolved path, writable directories
\* ------------------------------------------------------------------------
PosixFiles ==
    (<<SEP>> :> "dir") @@ (<<SEP, "tmp">> :> "dir") @@
    (<<SEP, "tmp", SEP, "f">> :> "file") @@
    (<<SEP, "etc">> :> "dir") @@ (<<SEP, "etc", SEP, "passwd">> :> "file") @@
    (<<SEP, "dev">> :> "dir") @@ (<<SEP, "dev", SEP, "sda">> :> "device") @@
    (<<SEP, "dev", SEP, "sda1">> :> "device")
WinFiles ==
    (<<"C:", WSEP>> :> "dir") @@ (<<"C:", WSEP, "Users">> :> "dir") @@
    (<<"C:", WSEP, "Users", WSEP, "f">> :> "file") @@
    (<<"D:", WSEP>> :> "dir") @@ (<<"D:", WSEP, "f">> :> "file")
FilesOf(platform) == IF platform = "win32" THEN WinFiles ELSE PosixFiles
\* what a stat of the path finds
KindOf(w, p) ==
    LET r == Resolve(p, w.platform) IN
    IF r \in DOMAIN FilesOf(w.platform) THEN FilesOf(w.platform)[r] ELSE "missing"
\* whether a file can be created in the directory
CanWrite(w, dir) == Resolve(dir, w.platform) \in w.writable

\* ------------------------------------------------------------------------
\* Validation (SecureWipeUtils and the service's validatePath)
\* ------------------------------------------------------------------------
Valid == [valid |-> TRUE, error |-> "none"]
Invalid(error) == [valid |-> FALSE, error |-> error]

\* the existence and regular-file checks of validateFilePath
FileChecks(filePath, w) ==
    IF isBlockDevice(filePath) THEN Valid
    ELSE IF KindOf(w, filePath) = "missing" THEN Invalid("File does not exist")
    ELSE IF KindOf(w, filePath) # "file" THEN Invalid("Path is not a regular file")
    ELSE Valid

\* SecureWipeUtils.validateFilePath
validateFilePath(filePath, w) ==
    LET resolvedPath == Resolve(filePath, w.platform) IN
    IF Includes(filePath, UP) \/ Includes(filePath, TILDE)
    THEN Invalid("Path contains potentially dangerous patterns")
    ELSE IF Includes(filePath, NUL) THEN Invalid("Path contains null bytes")
    ELSE IF ~IsAbsolute(resolvedPath, w.platform) THEN Invalid("Path must be absolute")
    ELSE FileChecks(filePath, w)

\* SecureWipeUtils.hasElevatedPrivileges: process.getuid does not exist on win32
hasElevatedPrivileges(w) ==
    IF w.platform = "win32" THEN FALSE ELSE w.uid0

dangerousPaths ==
    { <<SEP>>, <<SEP, "boot">>, <<SEP, "etc">>, <<SEP, "usr">>, <<SEP, "bin">>,
      <<SEP, "sbin">>, <<SEP, "lib">>,
      <<"C:", WSEP>>, <<"C:", WSEP, "Windows">>, <<"C:", WSEP, "Program Files">>,
      <<"C:", WSEP, "Users">> }

Safe == [safe |-> TRUE, warning |-> "none"]
Unsafe(warning) == [safe |-> FALSE, warning |-> warning]

\* SecureWipeUtils.isSafeToWipe
isSafeToWipe(filePath, w) ==
    LET resolvedPath == Resolve(filePath, w.platform) IN
    IF \E d \in dangerousPaths :
           \/ resolvedPath = d
           \/ StartsWith(resolvedPath, d \o <<PathSep(w.platform)>>)
    THEN Unsafe("Attempting to wipe system directory")
    ELSE IF isBlockDevice(filePath) /\ ~hasElevatedPrivileges(w)
    THEN Unsafe("Wiping block devices requires administrator/root privileges")
    ELSE IF /\ isBlockDevice(filePath)
            /\ \/ Includes(filePath, "PhysicalDrive")
               \/ (StartsWith(filePath, <<SEP, "dev", SEP>>) /\ ~EndsInDigit(filePath))
    THEN Unsafe("You are attempting to wipe an entire disk")
    ELSE Safe

\* lines 140-147: a block device proceeds despite the safety warning
BlockDeviceProceeds_Never(filePath) == FALSE
BlockDeviceProceeds(filePath) == isBlockDevice(filePath)

\* SecureWipeService.validatePath
validatePath(filePath, w) ==
    IF ~validateFilePath(filePath, w).valid THEN FALSE
    ELSE IF ~isSafeToWipe(filePath, w).safe THEN BlockDeviceProceeds(filePath)
    ELSE TRUE

validAlgorithms == {"dod5220", "gutmann", "random", "zeros", "ones"}
validateAlgorithm_Any(algorithm) == TRUE
validateAlgorithm(algorithm) == algorithm \in validAlgorithms

\* an optional number of a request: <<>> when absent, <<n>> when given
Given(x) == x # <<>>
\* if (config.passes): absent and 0 are falsy
TruthyNumber(x) == x # <<>> /\ x[1] # 0

MaxBufferSize == 1024 * 1024
MaxDemoSize == 10240
MinPasses == 1
MaxPasses == 100

validateBufferSize(bufferSize) ==
    IF bufferSize < 1 THEN Invalid("Buffer size must be at least 1 KB")
    ELSE IF bufferSize > MaxBufferSize THEN Invalid("Buffer size cannot exceed 1 GB")
    ELSE Valid

validateDemoSize(sizeInMB) ==
    IF sizeInMB < 1 THEN Invalid("Demo size must be at least 1 MB")
    ELSE IF sizeInMB > MaxDemoSize THEN Invalid("Demo size cannot exceed 10 GB")
    ELSE Valid

\* ------------------------------------------------------------------------
\* buildArgs: the argument vector, or the error thrown
\* ------------------------------------------------------------------------
Arg(text) == <<text>>
Built(args) == [ok |-> TRUE, args |-> args, error |-> NoError]
Thrown(kind, value) ==
    [ok |-> FALSE, args |-> <<>>,
     error |-> [kind |-> kind, parts |-> <<value>>, code |-> "0", ms |-> 0]]

\* the test that makes addOptionalArguments look at the pass count
PassesConsidered(passes) == TruthyNumber(passes)

\* addCoreArguments: the flags appended to args, or the error thrown
addCoreArguments(args, config, w) ==
    LET forced == args \o <<Arg("--force")>> IN
    IF ~validateAlgorithm(config.algorithm)
    THEN Thrown("Invalid algorithm", <<config.algorithm>>)
    ELSE LET core == forced \o <<Arg("--algorithm"), Arg(config.algorithm)>> IN
         IF config.demo
         THEN IF TruthyNumber(config.demoSize)
              THEN IF ~validateDemoSize(config.demoSize[1]).valid
                   THEN Thrown("Invalid demo size",
                               <<validateDemoSize(config.demoSize[1]).error>>)
                   ELSE Built(core \o <<Arg("--demo"), Arg("--demo-size"),
                                        Arg(ToString(config.demoSize[1]))>>)
              ELSE Built(core \o <<Arg("--demo")>>)
         ELSE IF ~validatePath(config.target, w)
              THEN Thrown("Invalid target path", config.target)
              ELSE Built(core \o <<Arg("--target"), config.target>>)

\* addOptionalArguments
addOptionalArguments(args, config) ==
    LET buffered ==
            IF TruthyNumber(config.bufferSize)
            THEN IF ~validateBufferSize(config.bufferSize[1]).valid
                 THEN Thrown("Invalid buffer size",
                             <<validateBufferSize(config.bufferSize[1]).error>>)
                 ELSE Built(args \o <<Arg("--buffer-size"),
                                      Arg(ToString(config.bufferSize[1]))>>)
            ELSE Built(args) IN
    IF ~buffered.ok THEN buffered
    ELSE IF PassesConsidered(config.passes)
    THEN IF config.passes[1] < MinPasses \/ config.passes[1] > MaxPasses
         THEN Thrown("Number of passes must be between 1 and 100", <<>>)
         ELSE Built(buffered.args \o <<Arg("--passes"), Arg(ToString(config.passes[1]))>>)
    ELSE buffered

\* buildArgs(config, listDrives, systemInfo)
buildArgs(config, listDrivesMode, systemInfoMode, w) ==
    LET args == <<Arg("--json")>> IN
    IF listDrivesMode THEN Built(args \o <<Arg("--list-drives")>>)
    ELSE IF systemInfoMode THEN Built(args \o <<Arg("-s")>>)
    ELSE LET core == addCoreArguments(args, config, w) IN
         IF ~core.ok THEN core
         ELSE addOptionalArguments(core.args, config)

\* ------------------------------------------------------------------------
\* System calls made for a request
\* ------------------------------------------------------------------------
Call(name, args) == [call |-> name, args |-> args]
BinaryPath == Arg("secure-wipe-bin")
\* the spawn of the wrapped executable, directly or through sudo / pkexec
SpawnCall(command, args) == Call("spawn", <<Arg(command)>> \o args)
\* the argument vectors of the two utility commands (lines 737 and 814)
ListArgs == buildArgs(<<>>, TRUE, FALSE, <<>>).args
SystemInfoArgs == buildArgs(<<>>, FALSE, TRUE, <<>>).args

\* ------------------------------------------------------------------------
\* Starting an operation
\* ------------------------------------------------------------------------
\* the spawn, the handlers and the timeout of wipeTarget, listDrives and
\* getSystemInfo, and of wipeWithElevatedProcess once the spawn succeeded
Spawned(kind, cb) ==
    LET o == nOps + 1 IN
    /\ ops' = [ops EXCEPT ![o] = Started(kind, cb)]
    /\ activeProcess' = o
    /\ timeoutHandle' = o
    /\ timers' = timers \cup {o}
    /\ nOps' = o
    /\ UNCHANGED <<jsonBuffer, grace, nCancel, nData, pvars>>

wipeTarget(cb) ==
    /\ nOps < MaxOps
    /\ Spawned("wipe", cb)
    /\ UNCHANGED qvars

listDrives ==
    /\ nOps < MaxOps
    /\ Spawned("list", FALSE)
    /\ calls' = Append(calls, SpawnCall(BinaryPath[1], ListArgs))
    /\ UNCHANGED <<world, request>>

getSystemInfo ==
    /\ nOps < MaxOps
    /\ Spawned("sysinfo", FALSE)
    /\ calls' = Append(calls, SpawnCall(BinaryPath[1], SystemInfoArgs))
    /\ UNCHANGED <<world, request>>

\* method is what getElevationMethod finds on this platform
wipeWithElevatedProcess(cb, method) ==
    /\ nOps < MaxOps
    /\ IF method = "none"
       THEN /\ ops' = [ops EXCEPT ![nOps + 1] =
                         [NoOp EXCEPT !.kind = "elevated", !.cb = cb,
                                      !.result = Failure(NoMethod, TRUE, "spawn", "none")]]
            /\ nOps' = nOps + 1
            /\ UNCHANGED <<activeProcess, timeoutHandle, timers, jsonBuffer,
                           grace, nCancel, nData, pvars>>
       ELSE Spawned("elevated", cb)
    /\ UNCHANGED qvars

\* ------------------------------------------------------------------------
\* The child's stdout and stderr
\* ------------------------------------------------------------------------
IsError(e) == e.hasType /\ e.type = <<"e">>
\* errorMessage = event.message
MessageOf(e) == IF e.message = <<>> THEN <<>> ELSE <<e.message>>

\* a handler that looks at the first event of a chunk only
ForwardWipeEvents_FirstOnly(op, events) ==
    IF events = <<>> \/ ~Head(events).hasType THEN op
    ELSE [op EXCEPT
            !.log = @ \o <<Emitted(Head(events))>>
                      \o (IF op.cb THEN <<Progress(Head(events))>> ELSE <<>>),
            !.hasError = @ \/ Head(events).type = <<"e">>,
            !.errorMessage = IF Head(events).type = <<"e">>
                             THEN MessageOf(Head(events)) ELSE @]

\* lines 661-681 and 483-503: the loop over the parsed events of a wipe
RECURSIVE ForwardWipeEvents(_, _)
ForwardWipeEvents(op, events) ==
    IF events = <<>> THEN op
    ELSE LET e == Head(events) IN
         ForwardWipeEvents(
           IF e.hasType
           THEN [op EXCEPT
                   !.log = @ \o <<Emitted(e)>>
                             \o (IF op.cb THEN <<Progress(e)>> ELSE <<>>),
                   !.hasError = @ \/ e.type = <<"e">>,
                   !.errorMessage = IF e.type = <<"e">> THEN MessageOf(e) ELSE @]
           ELSE op,
           Tail(events))

\* lines 752-758: the loop of listDrives
RECURSIVE CollectDrives(_, _)
CollectDrives(op, events) ==
    IF events = <<>> THEN op
    ELSE LET e == Head(events) IN
         CollectDrives(
           IF e.hasType /\ e.type = <<"d">> THEN [op EXCEPT !.payload = TRUE]
           ELSE IF IsError(e) THEN [op EXCEPT !.errorMessage = MessageOf(e)]
           ELSE op,
           Tail(events))

\* lines 833-847: the loop of getSystemInfo
RECURSIVE CollectSystemInfo(_, _)
CollectSystemInfo(op, events) ==
    IF events = <<>> THEN op
    ELSE LET e == Head(events) IN
         CollectSystemInfo(
           IF e.hasOsKeys THEN [op EXCEPT !.payload = TRUE]
           ELSE IF IsError(e) THEN [op EXCEPT !.errorMessage = MessageOf(e)]
           ELSE op,
           Tail(events))

HandleEvents(op, events) ==
    IF op.kind = "list" THEN CollectDrives(op, events)
    ELSE IF op.kind = "sysinfo" THEN CollectSystemInfo(op, events)
    ELSE ForwardWipeEvents(op, events)

stdoutData(o, data) ==
    /\ ops[o].child = "running"
    /\ nData < MaxData
    /\ nData' = nData + 1
    /\ LET r == parseEvents(jsonBuffer, data) IN
       /\ jsonBuffer' = r.buffer
       /\ ops' = [ops EXCEPT ![o] = HandleEvents(ops[o], r.events)]
    /\ UNCHANGED <<activeProcess, timeoutHandle, timers, grace, nOps, nCancel, pvars, qvars>>

\* a stderr handler that takes any text for an error of the wipe
stderrData_AsError(o, data) ==
    /\ ops[o].child = "running"
    /\ nData < MaxData
    /\ nData' = nData + 1
    /\ LET message == Trim(data) IN
       ops' = [ops EXCEPT
                 ![o].errorMessage = IF message # <<>> THEN Append(@, message) ELSE @,
                 ![o].hasError = @ \/ message # <<>>,
                 ![o].log = IF message # <<>> THEN Append(@, Stderr(message)) ELSE @]
    /\ UNCHANGED <<activeProcess, timeoutHandle, jsonBuffer, timers, grace, nOps,
                   nCancel, pvars, qvars>>

\* errorMessage += (errorMessage ? '\n' : '') + message, for a message that
\* is not empty after trim()
stderrData(o, data) ==
    /\ ops[o].child = "running"
    /\ nData < MaxData
    /\ nData' = nData + 1
    /\ LET message == Trim(data) IN
       ops' = [ops EXCEPT
                 ![o].errorMessage = IF message # <<>> THEN Append(@, message) ELSE @,
                 ![o].log = IF message # <<>> THEN Append(@, Stderr(message)) ELSE @]
    /\ UNCHANGED <<activeProcess, timeoutHandle, jsonBuffer, timers, grace, nOps,
                   nCancel, pvars, qvars>>

\* ------------------------------------------------------------------------
\* The child's end
\* ------------------------------------------------------------------------
\* a close handler that looks at the exit code only
CloseResult_ExitCodeOnly(op, code) ==
    IF code = "0"
    THEN Success("close", code)
    ELSE IF op.kind \in {"wipe", "elevated"}
    THEN Failure(MessageOr(op.errorMessage, code), FALSE, "close", code)
    ELSE Rejected(MessageOr(op.errorMessage, code), "close", code)

\* the result the 'close' handler of an operation passes to resolve/reject
CloseResult(op, code) ==
    IF op.kind \in {"wipe", "elevated"}
    THEN IF code = "0" /\ ~op.hasError
         THEN Success("close", code)
         ELSE Failure(MessageOr(op.errorMessage, code), FALSE, "close", code)
    ELSE IF op.kind = "list"
    THEN IF code = "0"
         THEN Success("close", code)
         ELSE Rejected(MessageOr(op.errorMessage, code), "close", code)
    ELSE IF code = "0" /\ op.payload
         THEN Success("close", code)
         \* errorMessage || systemInfo === null ? 'No system info received' : ...
         ELSE Rejected(IF op.errorMessage # <<>> \/ ~op.payload
                       THEN NoSystemInfo ELSE ExitError(code), "close", code)

close(o, code) ==
    /\ ops[o].child = "running"
    /\ cleanup
    /\ ops' = [ops EXCEPT ![o].child = "exited",
                          ![o].result = Settle(@, CloseResult(ops[o], code))]
    /\ UNCHANGED <<grace, nOps, nCancel, nData, pvars, qvars>>

\* the child could not be started: 'error', and the 'close' that follows it
\* in the same turn (its code is not 0 and the promise is settled already)
ErrorResult(op) ==
    IF op.kind = "elevated" THEN Failure(ProcessError, TRUE, "error", "none")
    ELSE Rejected(ProcessError, "error", "none")

processError(o) ==
    /\ ops[o].child = "running"
    /\ ops[o].log = <<>>
    /\ cleanup
    /\ ops' = [ops EXCEPT ![o].child = "exited",
                          ![o].result = Settle(@, ErrorResult(ops[o]))]
    /\ UNCHANGED <<grace, nOps, nCancel, nData, pvars, qvars>>

\* ------------------------------------------------------------------------
\* The timeout
\* ------------------------------------------------------------------------
TimeoutResult(op) ==
    IF op.kind = "elevated" THEN Failure(TimeoutError, FALSE, "timeout", "none")
    ELSE Rejected(TimeoutError, "timeout", "none")

\* the callback of the timer armed by operation t
timeoutFires(t) ==
    /\ t \in timers
    /\ timers' = timers \ {t}
    /\ IF activeProcess # 0
       THEN ops' = [o \in Ops |->
                      [ops[o] EXCEPT
                         !.log = IF o = activeProcess
                                 THEN Append(@, Kill("SIGTERM")) ELSE @,
                         !.result = IF o = t
                                    THEN Settle(@, TimeoutResult(ops[t])) ELSE @]]
       ELSE UNCHANGED ops
    /\ UNCHANGED <<activeProcess, timeoutHandle, jsonBuffer, grace, nOps, nCancel,
                   nData, pvars, qvars>>

\* ------------------------------------------------------------------------
\* cancel()
\* ------------------------------------------------------------------------
\* line 902: if (this.activeProcess)
CancelTakesEffect_Always == TRUE

CancelTakesEffect == activeProcess # 0

cancel ==
    /\ nCancel < MaxCancel
    /\ nCancel' = nCancel + 1
    /\ IF CancelTakesEffect
       THEN /\ ops' = [o \in Ops |->
                         IF o = activeProcess
                         THEN [ops[o] EXCEPT
                                 !.log = @ \o <<Emitted(cancelEvent), Kill("SIGTERM")>>,
                                 !.cancelled = TRUE]
                         ELSE ops[o]]
            /\ grace' = grace \cup {activeProcess}
            /\ cleanup
       ELSE UNCHANGED <<activeProcess, timeoutHandle, jsonBuffer, timers, grace, ops>>
    /\ UNCHANGED <<nOps, nData, pvars, qvars>>

\* the callback of the 2 second timer armed when operation g was cancelled
graceFires(g) ==
    /\ g \in grace
    /\ grace' = grace \ {g}
    /\ IF activeProcess # 0
       THEN /\ ops' = [ops EXCEPT ![activeProcess].log = Append(@, Kill("SIGKILL"))]
            /\ cleanup
       ELSE UNCHANGED <<activeProcess, timeoutHandle, jsonBuffer, timers, ops>>
    /\ UNCHANGED <<nOps, nCancel, nData, pvars, qvars>>

\* ------------------------------------------------------------------------
\* The service
\* ------------------------------------------------------------------------
Next ==
    \/ \E cb \in BOOLEAN : wipeTarget(cb)
    \/ \E cb \in BOOLEAN, method \in {"pkexec", "sudo", "none"} :
           wipeWithElevatedProcess(cb, method)
    \/ listDrives
    \/ getSystemInfo
    \/ \E o \in Ops : \E data \in StdoutOf(ops[o].kind) : stdoutData(o, data)
    \/ \E o \in Ops : \E data \in StderrTexts : stderrData(o, data)
    \/ \E o \in Ops : \E code \in ExitCodes : close(o, code)
    \/ \E o \in Ops : processError(o)
    \/ \E t \in Ops : timeoutFires(t)
    \/ cancel
    \/ \E g \in Ops : graceFires(g)

Spec == Init /\ [][Next]_vars

\* ------------------------------------------------------------------------
\* AdminPrivilegesUtils: each operator returns its value and the system
\* calls it made
\* ------------------------------------------------------------------------
SystemTemp == <<"C:", WSEP, "Windows", WSEP, "temp">>
WhichPkexec == Call("execSync", <<Arg("which pkexec")>>)
WhichSudo == Call("execSync", <<Arg("which sudo")>>)

\* isRunningAsRoot: a write to the system directory on win32, the uid elsewhere
isRunningAsRoot(w) ==
    IF w.platform = "win32"
    THEN [value |-> w.admin,
          calls |-> <<Call("writeFileSync", <<SystemTemp>>)>> \o
                    (IF w.admin THEN <<Call("unlinkSync", <<SystemTemp>>)>> ELSE <<>>)]
    ELSE [value |-> w.uid0, calls |-> <<>>]

\* line 154: what a failed stat is taken to mean
OnProbeError_NoElevation == FALSE
OnProbeError == TRUE

\* targetRequiresPrivileges: stat the target, probe the containing directory
RECURSIVE targetRequiresPrivileges(_, _)
targetRequiresPrivileges(targetPath, w) ==
    LET kind == KindOf(w, targetPath)
        stat == Call("stat", <<targetPath>>) IN
    IF kind = "missing" THEN [value |-> OnProbeError, calls |-> <<stat>>]
    ELSE IF kind = "dir"
    THEN IF CanWrite(w, targetPath)
         THEN [value |-> FALSE,
               calls |-> <<stat, Call("writeFile", <<targetPath>>),
                           Call("unlink", <<targetPath>>)>>]
         ELSE [value |-> TRUE, calls |-> <<stat, Call("writeFile", <<targetPath>>)>>]
    ELSE LET parent == targetRequiresPrivileges(Dirname(targetPath, w.platform), w) IN
         [value |-> parent.value, calls |-> <<stat>> \o parent.calls]

\* getElevationMethod
getElevationMethod(w) ==
    IF w.platform = "linux"
    THEN IF w.pkexec THEN [value |-> "pkexec", calls |-> <<WhichPkexec>>]
         ELSE IF w.sudo THEN [value |-> "sudo", calls |-> <<WhichPkexec, WhichSudo>>]
         ELSE [value |-> "none", calls |-> <<WhichPkexec, WhichSudo>>]
    ELSE IF w.platform = "darwin" THEN [value |-> "sudo", calls |-> <<>>]
    ELSE IF w.platform = "win32" THEN [value |-> "runas", calls |-> <<>>]
    ELSE [value |-> "none", calls |-> <<>>]

\* line 60: an elevated caller returns before the target is looked at
ReturnsEarly_Never(isRoot) == FALSE
ReturnsEarly(isRoot) == isRoot

\* checkPrivileges(targetPath): method is "unset" when the field is not set
checkPrivileges(targetPath, w) ==
    LET root == isRunningAsRoot(w)
        base == [hasPrivileges |-> root.value, needsElevation |-> FALSE,
                 isRoot |-> root.value, method |-> "unset", calls |-> root.calls] IN
    IF ReturnsEarly(root.value) THEN base
    ELSE IF targetPath # <<>>
    THEN LET needs == targetRequiresPrivileges(targetPath, w) IN
         IF needs.value
         THEN [base EXCEPT !.needsElevation = TRUE,
                           !.method = getElevationMethod(w).value,
                           !.calls = @ \o needs.calls \o getElevationMethod(w).calls]
         ELSE [base EXCEPT !.calls = @ \o needs.calls]
    ELSE [base EXCEPT !.needsElevation = TRUE,
                      !.method = getElevationMethod(w).value,
                      !.calls = @ \o getElevationMethod(w).calls]

\* sudoPrompt.exec of the quoted command line
ExecCall(args) == Call("sudoPrompt.exec", <<BinaryPath>> \o args)

\* spawnWithPrivileges: whether a child was spawned, the method reported,
\* the error kind
spawnWithPrivileges(args, w) ==
    LET method == getElevationMethod(w) IN
    IF method.value = "none"
    THEN [success |-> FALSE, method |-> "unset", error |-> NoMethod, calls |-> method.calls]
    ELSE IF method.value \in {"sudo", "pkexec"}
    THEN [success |-> TRUE, method |-> method.value, error |-> NoError,
          calls |-> method.calls \o <<SpawnCall(method.value, <<BinaryPath>> \o args)>>]
    ELSE IF method.value = "runas"
    THEN [success |-> FALSE, method |-> method.value,
          error |-> [kind |-> "Windows process spawning with privileges requires executeWithPrivileges method",
                     parts |-> <<>>, code |-> "0", ms |-> 0],
          calls |-> method.calls]
    ELSE [success |-> FALSE, method |-> method.value,
          error |-> [kind |-> "Unsupported elevation method",
                     parts |-> <<>>, code |-> "0", ms |-> 0],
          calls |-> method.calls]

\* ------------------------------------------------------------------------
\* Worlds and requests
\* ------------------------------------------------------------------------
World(platform, uid0, admin, pkexec, sudo, writable) ==
    [platform |-> platform, uid0 |-> uid0, admin |-> admin,
     pkexec |-> pkexec, sudo |-> sudo, writable |-> writable]
Worlds ==
    {World("linux", FALSE, FALSE, t[1], t[2], wr) :
        t \in {<<TRUE, TRUE>>, <<FALSE, TRUE>>, <<FALSE, FALSE>>}, wr \in {{}, {Cwd}}}
    \cup {World("linux", TRUE, FALSE, TRUE, TRUE, wr) : wr \in {{}, {Cwd}}}
    \cup {World("darwin", u, FALSE, FALSE, TRUE, wr) : u \in BOOLEAN, wr \in {{}, {Cwd}}}
    \cup {World("freebsd", FALSE, FALSE, FALSE, FALSE, wr) : wr \in {{}, {Cwd}}}
    \cup {World("win32", FALSE, a, FALSE, FALSE, wr) :
            a \in BOOLEAN, wr \in {{}, {<<"D:", WSEP>>}}}

PosixTargets ==
    { <<>>,                                         \* ''
      <<SEP, "tmp", SEP, "f">>,                     \* an existing regular file
      <<"f">>,                                      \* the same file, relative
      <<SEP, "tmp", SEP, "x">>,                     \* does not exist
      <<SEP, "tmp">>,                               \* a directory
      <<SEP, "tmp", SEP, UP, SEP, "etc", SEP, "passwd">>,
      <<TILDE, SEP, "f">>,
      <<SEP, "tmp", SEP, "f", NUL>>,
      <<SEP, "etc", SEP, "passwd">>,                \* under a protected path
      <<SEP, "dev", SEP, "sda">>,
      <<SEP, "dev", SEP, "sda1">> }
WinTargets ==
    { <<>>,
      <<"D:", WSEP, "f">>,
      <<"C:", WSEP, "Users", WSEP, "f">>,
      <<WINDEV, "PhysicalDrive", "0">>,
      <<WINDEV, "C:">> }
TargetsOf(platform) == IF platform = "win32" THEN WinTargets ELSE PosixTargets

Algorithms == {"random", "wipe9"}
DemoSizes == {<<>>, <<0>>, <<10>>, <<10241>>}
BufferSizes == {<<>>, <<0>>, <<64>>, <<1048577>>}
PassCounts == {<<>>, <<0>>, <<-1>>, <<3>>, <<101>>}
\* requestPrivileges: true, false or not set
PrivilegeRequests == {"true", "unset", "false"}

Config(target, algorithm, demo, demoSize, bufferSize, passes, requestPrivileges) ==
    [target |-> target, algorithm |-> algorithm, demo |-> demo,
     demoSize |-> demoSize, bufferSize |-> bufferSize, passes |-> passes,
     requestPrivileges |-> requestPrivileges]
\* the requests made: a demo size is given only with demo mode
ConfigsOf(platform) ==
    {c \in {Config(t, a, d, ds, bs, p, rp) :
                t \in TargetsOf(platform), a \in Algorithms, d \in BOOLEAN,
                ds \in DemoSizes, bs \in BufferSizes, p \in PassCounts,
                rp \in PrivilegeRequests} :
        c.demo \/ c.demoSize = <<>>}

\* what sudoPrompt.exec calls back with: an error, or the captured stdout
ExecDeclined == [error |-> TRUE, stdout |-> <<>>]
ExecDone(stdout) == [error |-> FALSE, stdout |-> stdout]
ExecOutcomes ==
    {ExecDeclined} \cup {ExecDone(s) : s \in {<<>>, OInfo \o OErrA, OErrA \o InfoHead}}
ExecError == [kind |-> "sudo-prompt error", parts |-> <<>>, code |-> "0", ms |-> 0]

\* ------------------------------------------------------------------------
\* wipeTargetWithPrivileges: the privilege check, the choice of a path and
\* the start on that path
\* ------------------------------------------------------------------------
MaxRequests == 1

Ended(kind, cb, result) == [NoOp EXCEPT !.kind = kind, !.cb = cb, !.result = result]

\* an operation that ends without a child: nothing of the service changes
EndsUnspawned(kind, cb, result, made) ==
    /\ ops' = [ops EXCEPT ![nOps + 1] = Ended(kind, cb, result)]
    /\ nOps' = nOps + 1
    /\ calls' = calls \o made
    /\ UNCHANGED <<activeProcess, timeoutHandle, timers, jsonBuffer, grace,
                   nCancel, nData, pvars, world, request>>

SpawnsChild(kind, cb, made) ==
    /\ Spawned(kind, cb)
    /\ calls' = calls \o made
    /\ UNCHANGED <<world, request>>

\* buildArgs threw: the catch block is entered before anything is spawned
Threw_Never(built) == FALSE
Threw(built) == ~built.ok

\* lines 425-437: wipeTarget, its rejection caught and returned as a failure
DirectWipe(config, cb, made) ==
    LET built == buildArgs(config, FALSE, FALSE, world)
        entered == made \o <<Call("wipeTarget", <<>>)>> IN
    IF Threw(built)
    THEN EndsUnspawned("wipe", cb, Failure(built.error, FALSE, "validation", "none"),
                       entered)
    ELSE SpawnsChild("wipe", cb, entered \o <<SpawnCall(BinaryPath[1], built.args)>>)

\* line 462: if (!spawnResult.success || !spawnResult.process)
SpawnFailed_Never(spawnResult) == FALSE
SpawnFailed(spawnResult) == ~spawnResult.success

\* wipeWithElevatedProcess up to the spawn
ElevatedWipe(config, cb, made) ==
    LET built == buildArgs(config, FALSE, FALSE, world)
        entered == made \o <<Call("wipeWithElevatedProcess", <<>>)>> IN
    IF Threw(built)
    THEN EndsUnspawned("elevated", cb,
                       Failure(built.error, TRUE, "validation", "none"), entered)
    ELSE LET spawnResult == spawnWithPrivileges(built.args, world) IN
         IF SpawnFailed(spawnResult)
         THEN EndsUnspawned("elevated", cb,
                            Failure(spawnResult.error, TRUE, "spawn", "none"),
                            entered \o spawnResult.calls)
         ELSE SpawnsChild("elevated", cb, entered \o spawnResult.calls)

\* lines 609-615: every captured event goes to 'event' and to onProgress
RECURSIVE ForwardCaptured(_, _)
ForwardCaptured(log, events) ==
    IF events = <<>> THEN log
    ELSE LET e == Head(events) IN
         ForwardCaptured(IF e.hasType THEN log \o <<Emitted(e), Progress(e)>> ELSE log,
                         Tail(events))

\* wipeWithWindowsElevation up to the call of executeWithPrivileges: the
\* elevated command (its prompt included) runs while the method awaits it;
\* no handle is taken and no timer is armed
WindowsWipe(config, cb, made) ==
    LET built == buildArgs(config, FALSE, FALSE, world)
        entered == made \o <<Call("wipeWithWindowsElevation", <<>>)>>
        method == getElevationMethod(world) IN
    IF Threw(built)
    THEN EndsUnspawned("windows", cb,
                       Failure(built.error, TRUE, "validation", "none"), entered)
    ELSE IF method.value = "none"
    THEN EndsUnspawned("windows", cb, Failure(NoMethod, TRUE, "exec", "none"),
                       entered \o method.calls)
    ELSE /\ ops' = [ops EXCEPT ![nOps + 1] = Started("windows", cb)]
         /\ nOps' = nOps + 1
         /\ calls' = calls \o entered \o method.calls \o <<ExecCall(built.args)>>
         /\ UNCHANGED <<activeProcess, timeoutHandle, timers, jsonBuffer, grace,
                        nCancel, nData, pvars, world, request>>

\* lines 596-622: the callback of sudoPrompt.exec came, the awaited result is
\* looked at and the result of the wipe is returned
execReturns(o, exec) ==
    /\ ops[o].kind = "windows"
    /\ ops[o].child = "running"
    /\ IF exec.error
       THEN /\ ops' = [ops EXCEPT ![o].child = "exited",
                                  ![o].result = Failure(ExecError, TRUE, "exec", "none")]
            /\ UNCHANGED jsonBuffer
       ELSE LET parse == exec.stdout # <<>> /\ ops[o].cb
                parsed == IF parse THEN parseEvents(jsonBuffer, exec.stdout)
                          ELSE [buffer |-> jsonBuffer, events |-> <<>>] IN
            /\ ops' = [ops EXCEPT ![o].child = "exited",
                                  ![o].result = Success("exec", "none"),
                                  ![o].log = ForwardCaptured(@, parsed.events)]
            /\ jsonBuffer' = parsed.buffer
    /\ UNCHANGED <<activeProcess, timeoutHandle, timers, grace, nOps, nCancel,
                   nData, pvars, qvars>>

\* line 401: the request did not forbid escalation
EscalationAllowed_Always(config) == TRUE
EscalationAllowed(config) == config.requestPrivileges # "false"

\* lines 401-406: escalation is needed, allowed and not already held
Escalates(config, privilegeCheck) ==
    /\ privilegeCheck.needsElevation
    /\ EscalationAllowed(config)
    /\ ~privilegeCheck.hasPrivileges

\* wipeTargetWithPrivileges(config, onProgress)
wipeTargetWithPrivileges(cb) ==
    /\ nOps < MaxRequests
    /\ LET config == request
           privilegeCheck == checkPrivileges(config.target, world)
           made == <<Call("checkPrivileges", <<>>)>> \o privilegeCheck.calls IN
       IF Escalates(config, privilegeCheck)
       THEN IF world.platform # "win32"
            THEN ElevatedWipe(config, cb, made)
            ELSE WindowsWipe(config, cb, made)
       ELSE DirectWipe(config, cb, made)

StartInit ==
    /\ ServiceInit
    /\ pSegs = <<>>
    /\ pPos = 0
    /\ pOut = <<>>
    /\ pCutEsc = FALSE
    /\ world \in Worlds
    /\ request \in ConfigsOf(world.platform)
    /\ calls = <<>>

StartNext ==
    \/ \E cb \in BOOLEAN : wipeTargetWithPrivileges(cb)
    \/ \E o \in Ops, exec \in ExecOutcomes : execReturns(o, exec)
    \/ (nOps < MaxRequests /\ listDrives)
    \/ (nOps < MaxRequests /\ getSystemInfo)

StartSpec == StartInit /\ [][StartNext]_vars

pText == Concat(pSegs)

\* positions of the backslashes that escape the next character
RECURSIVE EscPositions(_, _)
EscPositions(s, i) ==
    IF i > Len(s) THEN {}
    ELSE IF s[i] = BS THEN {i} \cup EscPositions(s, i + 2)
    ELSE EscPositions(s, i + 1)

\* ------------------------------------------------------------------------
\* The parser alone: one stream, fed to parseEvents chunk by chunk
\* ------------------------------------------------------------------------
SegSeqs == UNION {[1..n -> Segments] : n \in 1..MaxSegs}

ParseInit ==
    /\ ServiceInit
    /\ pSegs \in SegSeqs
    /\ pPos = 0
    /\ pOut = <<>>
    /\ pCutEsc = FALSE
    /\ NoRequests

\* the stdout 'data' callback receives the next n characters
Feed(n) ==
    /\ pPos + n <= Len(pText)
    /\ LET r == parseEvents(jsonBuffer, SubSeq(pText, pPos + 1, pPos + n)) IN
       /\ jsonBuffer' = r.buffer
       /\ pOut' = pOut \o r.events
    /\ pPos' = pPos + n
    /\ pCutEsc' = (pCutEsc \/ (pPos + n) \in EscPositions(pText, 1))
    /\ UNCHANGED <<pSegs, svars, qvars>>

ParseNext == \E n \in 1..Len(pText) : Feed(n)

ParseSpec == ParseInit /\ [][ParseNext]_vars

\* ------------------------------------------------------------------------
\* What the stream holds, from the segments it was built of
\* ------------------------------------------------------------------------
IsObject(seg) == seg \in Objects
WellFormed == \A k \in 1..Len(pSegs) : pSegs[k] \in Objects \cup {Blank}
ObjectsOf(segs) == SelectSeq(segs, IsObject)
\* position of the last character of segment k
SegEnd(k) == Len(Concat(SubSeq(pSegs, 1, k)))
\* the segments that end in the positions a+1..b
RECURSIVE SegsEndingIn(_, _, _)
SegsEndingIn(k, a, b) ==
    IF k > Len(pSegs) THEN <<>>
    ELSE (IF a < SegEnd(k) /\ SegEnd(k) <= b THEN <<pSegs[k]>> ELSE <<>>)
         \o SegsEndingIn(k + 1, a, b)
\* position of the closing brace of the last object that ends at or before p
RECURSIVE LastObjectEnd(_, _)
LastObjectEnd(k, p) ==
    IF k = 0 THEN 0
    ELSE IF IsObject(pSegs[k]) /\ SegEnd(k) <= p THEN SegEnd(k)
    ELSE LastObjectEnd(k - 1, p)
Srcs(evs) == [k \in 1..Len(evs) |-> evs[k].src]
EventsOf(objs) == [k \in 1..Len(objs) |-> parseEvent(objs[k])]

\* ------------------------------------------------------------------------
\* C4: when a stream of well-formed objects (and blanks) has been fed in any
\* chunking, the events returned are exactly its objects, in order, and equal
\* the events one call on the whole text returns.
\* ------------------------------------------------------------------------
Thm_C4_ChunkingIndependent ==
    (WellFormed /\ pPos = Len(pText)) =>
        /\ pOut = parseEvents(<<>>, pText).events
        /\ Srcs(pOut) = ObjectsOf(pSegs)

\* two objects, the first cut inside an escape, both returned and classified
Wit_C4_TwoObjectsChunked ==
    /\ pSegs = <<OBrace, OSys>>
    /\ pPos = Len(pText)
    /\ pCutEsc
    /\ Len(pOut) = 2
    /\ pOut[1].kind = "SecureWipeEvent"
    /\ pOut[2].kind = "SystemInfo"

\* ------------------------------------------------------------------------
\* C5: an object whose string value holds unbalanced braces, an escaped quote and an
\* escaped backslash is returned whole, and only once its real closing brace
\* has been fed, wherever the chunks were cut.
\* ------------------------------------------------------------------------
Thm_C5_BracesInStrings ==
    WellFormed =>
        \A k \in 1..Len(pSegs) :
            pSegs[k] = OBrace =>
                LET idx == Len(ObjectsOf(SubSeq(pSegs, 1, k))) IN
                IF SegEnd(k) <= pPos
                THEN Len(pOut) >= idx /\ pOut[idx].src = OBrace
                ELSE Len(pOut) < idx

\* the object was cut between a backslash and the escaped character, and the
\* object after it was found as well
Wit_C5_CutInsideEscape ==
    /\ pSegs = <<OBrace, OInfo>>
    /\ pCutEsc
    /\ Len(pOut) = 2
    /\ pOut[1].src = OBrace
    /\ pOut[2].src = OInfo

\* ------------------------------------------------------------------------
\* C6: in a well-formed stream a call returns exactly the objects whose
\* closing brace lies in the chunk it received, and leaves in the buffer the
\* text after the last closing brace received so far.
\* ------------------------------------------------------------------------
Thm_C6_EmittedOnClosingChunk ==
    [][WellFormed =>
        /\ pOut' = pOut \o EventsOf(ObjectsOf(SegsEndingIn(1, pPos, pPos')))
        /\ jsonBuffer' = SubSeq(pText, LastObjectEnd(Len(pSegs), pPos') + 1, pPos')
      ]_vars

\* a chunk ended inside the second object: nothing returned for it, its text
\* is kept
Wit_C6_PartialRetained ==
    /\ Len(pSegs) = 2 /\ IsObject(pSegs[1]) /\ IsObject(pSegs[2])
    /\ pPos > Len(pSegs[1]) /\ pPos < Len(pText)
    /\ Len(pOut) = 1
    /\ jsonBuffer = SubSeq(pText, Len(pSegs[1]) + 1, pPos)

\* ------------------------------------------------------------------------
\* C7: every well-formed object of a stream is returned, also when a
\* malformed fragment (balanced non-JSON span, stray closing brace, stray
\* quote) came before it.
\* ------------------------------------------------------------------------
Cex_C7_ObjectsAfterFragment ==
    pPos = Len(pText) => Srcs(pOut) = ObjectsOf(pSegs)


\* ------------------------------------------------------------------------
\* What an operation observed, from its log
\* ------------------------------------------------------------------------
Count(log, entry) == Len(SelectSeq(log, LAMBDA x : x = entry))
IsErrorEntry(x) == x.ch = "event" /\ x.type = <<"e">>
ErrorSeen(log) == \E i \in 1..Len(log) : IsErrorEntry(log[i])
\* index of the last error-kind event, 0 when there is none
RECURSIVE LastErrorEvent(_, _)
LastErrorEvent(log, i) ==
    IF i = 0 THEN 0
    ELSE IF IsErrorEntry(log[i]) THEN i
    ELSE LastErrorEvent(log, i - 1)
\* the stderr texts received after entry k, in order
RECURSIVE StderrAfter(_, _)
StderrAfter(log, k) ==
    IF k >= Len(log) THEN <<>>
    ELSE (IF log[k + 1].ch = "stderr" THEN <<log[k + 1].message>> ELSE <<>>)
         \o StderrAfter(log, k + 1)
\* the message of the last error-kind event, then the later stderr texts
ErrorTextOf(log) ==
    LET k == LastErrorEvent(log, Len(log)) IN
    (IF k > 0 /\ log[k].message # <<>> THEN <<log[k].message>> ELSE <<>>)
    \o StderrAfter(log, k)
\* the error text received last, from an error-kind event or from stderr
RECURSIVE MostRecentText(_, _)
MostRecentText(log, i) ==
    IF i = 0 THEN <<>>
    ELSE IF (IsErrorEntry(log[i]) \/ log[i].ch = "stderr") /\ log[i].message # <<>>
         THEN <<log[i].message>>
    ELSE MostRecentText(log, i - 1)

IsWipe(o) == ops[o].kind \in {"wipe", "elevated"}

\* ------------------------------------------------------------------------
\* C1: a start while a handle is held spawns nothing and leaves the handle,
\* the timeout, the buffer and the earlier operations as they are.
\* ------------------------------------------------------------------------
Cex_C1_SecondStartRejected ==
    [][(nOps' = nOps + 1 /\ activeProcess # 0) =>
          /\ ops'[nOps'].child = "none"
          /\ UNCHANGED <<activeProcess, timeoutHandle, timers, jsonBuffer>>
          /\ \A o \in 1..nOps : ops'[o] = ops[o]
      ]_vars

\* ------------------------------------------------------------------------
\* C2: an operation that cancel() was called on never resolves success.
\* ------------------------------------------------------------------------
Cex_C2_CancelledNeverSucceeds ==
    \A o \in Ops : ops[o].cancelled => ~ops[o].result.success

\* ------------------------------------------------------------------------
\* C3, as claimed: the result of a wipe settled when its child closes is
\* success exactly for code 0 without an error-kind event, and otherwise a
\* failure whose message is the error text received last, or the fallback.
\* ------------------------------------------------------------------------
Cex_C3_MessageIsMostRecentText ==
    \A o \in Ops :
        (IsWipe(o) /\ ops[o].result.by = "close") =>
            LET r == ops[o].result
                recent == MostRecentText(ops[o].log, Len(ops[o].log)) IN
            /\ r.success <=> (r.exitCode = "0" /\ ~ErrorSeen(ops[o].log))
            /\ ~r.success =>
                 r.error = IF recent = <<>> THEN ExitError(r.exitCode)
                           ELSE TextError(recent)

\* C3, amended: the result of a wipe that is still pending when its child
\* closes is success exactly for code 0 without an error-kind event, and
\* otherwise a failure whose message is the message of the last error-kind
\* event followed by the stderr texts received after it, or the fallback when
\* that is empty.
Thm_C3_CloseResult ==
    \A o \in Ops :
        (IsWipe(o) /\ ops[o].result.by = "close") =>
            LET r == ops[o].result
                text == ErrorTextOf(ops[o].log) IN
            /\ r.state = "resolved"
            /\ r.success <=> (r.exitCode = "0" /\ ~ErrorSeen(ops[o].log))
            /\ ~r.success =>
                 r.error = IF text = <<>> THEN ExitError(r.exitCode)
                           ELSE TextError(text)

\* an error event, then stderr text, then the child closes with code 0
Wit_C3_ErrorThenStderr ==
    \E o \in Ops :
        /\ IsWipe(o) /\ ops[o].result.by = "close"
        /\ ops[o].result.exitCode = "0"
        /\ ~ops[o].result.success
        /\ ops[o].result.error = TextError(<< <<"a">>, <<"s">> >>)

\* ------------------------------------------------------------------------
\* C8: cancel() while no handle is held changes nothing of the service: no
\* event, no signal, no timer, the buffer, the timeout handle and the
\* (absent) process handle as before.
\* ------------------------------------------------------------------------
Thm_C8_IdleCancelNoOp ==
    [][(nCancel' # nCancel /\ activeProcess = 0) =>
          UNCHANGED <<activeProcess, timeoutHandle, jsonBuffer, timers, grace, ops>>
      ]_vars

\* cancel() was called with no handle held while a child was still running
\* and its partial output was in the buffer
Wit_C8_IdleCancelHappened ==
    /\ nCancel = 1
    /\ \A o \in Ops : ~ops[o].cancelled
    /\ activeProcess = 0
    /\ jsonBuffer # <<>>
    /\ \E o \in Ops : ops[o].child = "running"

\* ------------------------------------------------------------------------
\* C9: when the grace timer of a cancelled operation fires and that
\* operation's child has not exited, SIGKILL is sent to that child.
\* ------------------------------------------------------------------------
Cex_C9_ForceKillAfterGrace ==
    [][\A g \in Ops :
          (g \in grace /\ g \notin grace' /\ ops[g].child = "running") =>
              /\ Len(ops'[g].log) = Len(ops[g].log) + 1
              /\ ops'[g].log[Len(ops'[g].log)] = Kill("SIGKILL")
      ]_vars

\* ------------------------------------------------------------------------
\* C10: a cancelled operation got exactly one 'Operation cancelled by user'
\* event on the 'event' channel and, when it was started with a progress
\* callback, exactly one on that callback, before the SIGTERM.
\* ------------------------------------------------------------------------
Cex_C10_CancelEventToSink ==
    \A o \in Ops :
        ops[o].cancelled =>
            LET log == ops[o].log IN
            /\ Count(log, Emitted(cancelEvent)) = 1
            /\ ops[o].cb => Count(log, Progress(cancelEvent)) = 1
            /\ \E i, j \in 1..Len(log) :
                  /\ i < j
                  /\ log[i] = Emitted(cancelEvent)
                  /\ log[j] = Kill("SIGTERM")

\* ------------------------------------------------------------------------
\* C11: when the timeout timer of an operation fires while that operation's
\* child is still running, that child is sent SIGTERM and the operation is
\* settled as a timeout failure carrying the configured timeout.
\* ------------------------------------------------------------------------
Cex_C11_TimeoutTerminatesOwnChild ==
    [][\A t \in Ops :
          (timeoutFires(t) /\ ops[t].child = "running") =>
              /\ ops'[t].log = Append(ops[t].log, Kill("SIGTERM"))
              /\ ops'[t].result.state # "pending"
              /\ ~ops'[t].result.success
              /\ ops'[t].result.error = TimeoutError
      ]_vars

\* ------------------------------------------------------------------------
\* What a request led to, from the calls made
\* ------------------------------------------------------------------------
WipeKinds == {"wipe", "elevated", "windows"}
\* the call runs the wrapped executable
IsLaunch(c) == c.call \in {"spawn", "sudoPrompt.exec"}
Launches == SelectSeq(calls, IsLaunch)
\* the arguments handed to the wrapped executable
WipeArgsOf(c) ==
    LET i == CHOOSE j \in 1..Len(c.args) : c.args[j] = BinaryPath IN
    SubSeq(c.args, i + 1, Len(c.args))
HasFlag(args, flag) == \E i \in 1..Len(args) : args[i] = Arg(flag)
\* the error buildArgs throws for the request, if any
RequestBuilt == buildArgs(request, FALSE, FALSE, world)

\* ------------------------------------------------------------------------
\* C12: a wipe request for which validation fails (buildArgs throws) runs
\* nothing and leaves the service as it was: no child, no event, no timer,
\* no handle, on the direct path and on both elevated paths; its result is
\* the failure carrying the validation error.
\* ------------------------------------------------------------------------
Thm_C12_InvalidRequestSpawnsNothing ==
    [][(nOps' = nOps + 1 /\ ops'[nOps'].kind \in WipeKinds /\ ~RequestBuilt.ok) =>
          /\ UNCHANGED <<activeProcess, timeoutHandle, timers, jsonBuffer, grace>>
          /\ ops'[nOps'].child = "none"
          /\ ops'[nOps'].log = <<>>
          /\ ops'[nOps'].result.state = "resolved"
          /\ ~ops'[nOps'].result.success
          /\ ops'[nOps'].result.error = RequestBuilt.error
          /\ \A i \in (Len(calls) + 1)..Len(calls') : ~IsLaunch(calls'[i])
      ]_vars

\* an out-of-range pass count on the blocking elevated path
Wit_C12_InvalidOnElevatedPath ==
    /\ nOps = 1
    /\ ops[1].kind = "windows"
    /\ ops[1].result.error.kind = "Number of passes must be between 1 and 100"
    /\ ~isActive
    /\ Launches = <<>>

\* the path wipeTargetWithPrivileges takes for a request
PathTaken(config, w) ==
    IF Escalates(config, checkPrivileges(config.target, w))
    THEN IF w.platform # "win32" THEN "elevated" ELSE "windows"
    ELSE "wipe"
IsProbe(c) == c.call \in {"stat", "writeFile", "unlink"}

\* ------------------------------------------------------------------------
\* C13: in demo mode the target is ignored: the path a demo request takes
\* (direct or escalated) is the one it takes with any other target, the
\* arguments never carry --target, and the target is not probed in the
\* file system.
\* ------------------------------------------------------------------------
Cex_C13_DemoIgnoresTarget ==
    \A o \in 1..nOps :
        (request.demo /\ ops[o].kind \in WipeKinds) =>
            /\ \A t \in TargetsOf(world.platform) :
                   PathTaken([request EXCEPT !.target = t], world) = ops[o].kind
            /\ \A i \in 1..Len(calls) : ~IsProbe(calls[i])
            /\ \A i \in 1..Len(Launches) : ~HasFlag(WipeArgsOf(Launches[i]), "--target")

\* a number was given for the option
Provided(n) == n # <<>>
InRange(n, lo, hi) == Provided(n) /\ n[1] >= lo /\ n[1] <= hi

\* ------------------------------------------------------------------------
\* C14: a pass count that is provided and outside 1..100 is a validation
\* error, so nothing is launched; the arguments of a launch carry --passes
\* exactly when a pass count in 1..100 was provided, and --buffer-size only
\* when a valid buffer size was provided.
\* ------------------------------------------------------------------------
Cex_C14_PassCountChecked ==
    \A i \in 1..Len(Launches) :
        LET args == WipeArgsOf(Launches[i]) IN
        HasFlag(args, "--force") =>
            /\ ~Provided(request.passes) \/ InRange(request.passes, MinPasses, MaxPasses)
            /\ HasFlag(args, "--passes") <=> InRange(request.passes, MinPasses, MaxPasses)
            /\ HasFlag(args, "--buffer-size") => InRange(request.bufferSize, 1, MaxBufferSize)

\* where a flag stands in an argument vector (0: nowhere)
FlagIndex(args, flag) ==
    IF HasFlag(args, flag) THEN CHOOSE i \in 1..Len(args) : args[i] = Arg(flag) ELSE 0
FlagCount(args, flag) == Cardinality({i \in 1..Len(args) : args[i] = Arg(flag)})
ModeSelectors == {"--list-drives", "-s", "--algorithm"}
ModeFlags == {"--force", "--algorithm", "--demo", "--demo-size", "--target"}
TuningFlags == {"--buffer-size", "--passes"}
\* one mode, selected once, behind --json, tuning flags last
OneMode(args) ==
    /\ Len(args) >= 2
    /\ args[1] = Arg("--json")
    /\ Cardinality({f \in ModeSelectors : HasFlag(args, f)}) = 1
    /\ HasFlag(args, "--list-drives") => args = <<Arg("--json"), Arg("--list-drives")>>
    /\ HasFlag(args, "-s") => args = <<Arg("--json"), Arg("-s")>>
    /\ HasFlag(args, "--algorithm") =>
          /\ FlagCount(args, "--algorithm") = 1
          /\ FlagIndex(args, "--algorithm") < Len(args)
          /\ args[FlagIndex(args, "--algorithm") + 1][1] \in
                {"random", "zeros", "ones", "dod5220", "gutmann"}
          /\ FlagCount(args, "--demo") + FlagCount(args, "--target") = 1
          /\ \A m \in ModeFlags, t \in TuningFlags :
                 (HasFlag(args, m) /\ HasFlag(args, t)) =>
                     FlagIndex(args, m) < FlagIndex(args, t)

\* ------------------------------------------------------------------------
\* C15: every argument vector buildArgs returns, and so every one a child is
\* launched with, starts with --json and selects exactly one mode:
\* --list-drives alone, -s alone, or --algorithm with one of the five
\* algorithms and exactly one of --demo and --target, the tuning flags
\* standing behind the flags of the mode.
\* ------------------------------------------------------------------------
Thm_C15_OneModeBehindJson ==
    /\ RequestBuilt.ok => OneMode(RequestBuilt.args)
    /\ OneMode(ListArgs)
    /\ OneMode(SystemInfoArgs)
    /\ \A i \in 1..Len(Launches) : OneMode(WipeArgsOf(Launches[i]))

\* a demo launched with a size, a buffer size and a pass count
Wit_C15_DemoWithTuningLaunched ==
    \E i \in 1..Len(Launches) :
        LET args == WipeArgsOf(Launches[i]) IN
        /\ HasFlag(args, "--demo-size")
        /\ HasFlag(args, "--buffer-size")
        /\ HasFlag(args, "--passes")

\* a wipe of a block device outside demo mode, asked by a caller without
\* elevated rights
DeviceRequestUnelevated ==
    /\ ~request.demo
    /\ isBlockDevice(request.target)
    /\ ~hasElevatedPrivileges(world)
TargetRejected(o) ==
    /\ ops[o].result.state = "resolved"
    /\ ~ops[o].result.success
    /\ ops[o].result.error.kind = "Invalid target path"

UnderProtectedPath(filePath, w) ==
    \E d \in dangerousPaths :
        \/ Resolve(filePath, w.platform) = d
        \/ StartsWith(Resolve(filePath, w.platform), d \o <<PathSep(w.platform)>>)

\* ------------------------------------------------------------------------
\* C17: a non-device target is accepted by the validator only if it has no
\* traversal sequence and no null byte, is an absolute path, exists, is a
\* regular file and is not under a protected system path.
\* ------------------------------------------------------------------------
Cex_C17_AcceptedTargetIsAbsolute ==
    \A o \in 1..nOps :
        (/\ ops[o].kind \in WipeKinds
         /\ ~request.demo
         /\ ~isBlockDevice(request.target)
         /\ validatePath(request.target, world)) =>
            /\ ~Includes(request.target, UP)
            /\ ~Includes(request.target, NUL)
            /\ IsAbsolute(request.target, world.platform)
            /\ KindOf(world, request.target) = "file"
            /\ ~UnderProtectedPath(request.target, world)

\* the directory the write test is made in: the target when it is a
\* directory, the directory holding it otherwise
ProbedDir(target, w) ==
    IF KindOf(w, target) = "dir" THEN target ELSE Dirname(target, w.platform)
\* the calls of checkPrivileges stand in the calls made, behind its entry
ChecksMade(privilegeCheck) ==
    \E i \in 1..Len(calls) :
        /\ calls[i] = Call("checkPrivileges", <<>>)
        /\ SubSeq(calls, i + 1, i + Len(privilegeCheck.calls)) = privilegeCheck.calls

\* ------------------------------------------------------------------------
\* C18: checkPrivileges returns and never throws. For a caller that is not
\* elevated and a given target: a target that cannot be stat'ed gives
\* needsElevation = TRUE; a target whose directory takes the test file
\* gives FALSE; a target whose directory refuses the write gives TRUE. The
\* start goes on with the returned value.
\* ------------------------------------------------------------------------
Thm_C18_ProbeErrorMeansElevation ==
    \A o \in 1..nOps :
        (/\ ops[o].kind \in WipeKinds
         /\ ~isRunningAsRoot(world).value
         /\ request.target # <<>>) =>
            LET privilegeCheck == checkPrivileges(request.target, world)
                found == KindOf(world, request.target)
                dir == ProbedDir(request.target, world) IN
            /\ found = "missing" => privilegeCheck.needsElevation
            /\ (found # "missing" /\ CanWrite(world, dir)) => ~privilegeCheck.needsElevation
            /\ (found # "missing" /\ ~CanWrite(world, dir)) => privilegeCheck.needsElevation
            /\ ~privilegeCheck.hasPrivileges
            /\ ChecksMade(privilegeCheck)
            /\ ops[o].kind = PathTaken(request, world)

\* a target that does not exist sent the wipe through pkexec or sudo
Wit_C18_MissingTargetEscalated ==
    /\ nOps = 1
    /\ request.target # <<>>
    /\ KindOf(world, request.target) = "missing"
    /\ ~isRunningAsRoot(world).value
    /\ ops[1].kind = "elevated"
    /\ \E i \in 1..Len(calls) : calls[i] = Call("stat", <<request.target>>)

NoProbeMade == \A i \in 1..Len(calls) : ~IsProbe(calls[i])
NoToolLookup == \A i \in 1..Len(calls) : calls[i].call # "execSync"

\* ------------------------------------------------------------------------
\* C19: for a caller that already runs elevated, checkPrivileges returns
\* hasPrivileges = TRUE and needsElevation = FALSE for every target without
\* probing the target, and the wipe runs directly; for a caller that is not
\* elevated and no target, it returns needsElevation = TRUE with the
\* elevation method of the platform.
\* ------------------------------------------------------------------------
Thm_C19_ElevatedCallerNotProbed ==
    \A o \in 1..nOps :
        ops[o].kind \in WipeKinds =>
            LET privilegeCheck == checkPrivileges(request.target, world) IN
            /\ ChecksMade(privilegeCheck)
            /\ isRunningAsRoot(world).value =>
                  /\ privilegeCheck.hasPrivileges
                  /\ ~privilegeCheck.needsElevation
                  /\ privilegeCheck.method = "unset"
                  /\ NoProbeMade
                  /\ NoToolLookup
                  /\ ops[o].kind = "wipe"
            /\ (~isRunningAsRoot(world).value /\ request.target = <<>>) =>
                  /\ ~privilegeCheck.hasPrivileges
                  /\ privilegeCheck.needsElevation
                  /\ privilegeCheck.method = getElevationMethod(world).value
                  /\ privilegeCheck.method =
                         CASE world.platform = "win32" -> "runas"
                           [] world.platform = "darwin" -> "sudo"
                           [] world.platform = "linux" /\ world.pkexec -> "pkexec"
                           [] world.platform = "linux" /\ ~world.pkexec /\ world.sudo -> "sudo"
                           [] OTHER -> "none"
                  /\ NoProbeMade

\* root wipes a file in a directory that would refuse the test file
Wit_C19_RootWipesUnprobed ==
    /\ nOps = 1
    /\ world.uid0
    /\ world.writable = {}
    /\ request.target = <<SEP, "tmp", SEP, "f">>
    /\ ~request.demo
    /\ ops[1].kind = "wipe"
    /\ ops[1].child = "running"

\* escalation is required and requested, and the platform offers no method
EscalationWithoutMethod ==
    /\ Escalates(request, checkPrivileges(request.target, world))
    /\ getElevationMethod(world).value = "none"

\* ------------------------------------------------------------------------
\* C20: when escalation is required and requested and no elevation method
\* is available, a valid wipe request fails at once: no child is launched,
\* elevated or not, no handle and no timer is held, and the result is the
\* failure whose privilegeError carries the text that no privilege
\* escalation method is available.
\* ------------------------------------------------------------------------
Thm_C20_NoMethodFailsFast ==
    [][(/\ nOps' = nOps + 1
        /\ ops'[nOps'].kind \in WipeKinds
        /\ EscalationWithoutMethod
        /\ RequestBuilt.ok) =>
          /\ ops'[nOps'].kind = "elevated"
          /\ ops'[nOps'].result = Failure(NoMethod, TRUE, "spawn", "none")
          /\ ops'[nOps'].child = "none"
          /\ ops'[nOps'].log = <<>>
          /\ UNCHANGED <<activeProcess, timeoutHandle, timers, jsonBuffer, grace>>
          /\ \A i \in (Len(calls) + 1)..Len(calls') : ~IsLaunch(calls'[i])
      ]_vars

\* linux with neither pkexec nor sudo: the valid request ended unspawned
Wit_C20_NoToolOnLinux ==
    /\ nOps = 1
    /\ world.platform = "linux"
    /\ EscalationWithoutMethod
    /\ RequestBuilt.ok
    /\ ops[1].result.error = NoMethod
    /\ ops[1].result.privilegeError
    /\ ~isActive
    /\ Launches = <<>>

\* the settled result reports a failure of the escalation itself
IsEscalationFailure(result) == result.by \in {"spawn", "exec", "error"}

\* ------------------------------------------------------------------------
\* C21: in the result of a privilege-aware wipe the privilegeError field is
\* set exactly when the failure is an escalation failure: it is not set for
\* a validation failure nor for a failure of the wipe itself.
\* ------------------------------------------------------------------------
Cex_C21_PrivilegeErrorOnlyForEscalation ==
    \A o \in 1..nOps :
        (/\ ops[o].kind \in WipeKinds
         /\ ops[o].result.state # "pending"
         /\ ~ops[o].result.success) =>
            (ops[o].result.privilegeError <=> IsEscalationFailure(ops[o].result))

\* what the sinks of an operation are owed for the events of a text: every
\* event to 'event', and to the progress callback when there is one
RECURSIVE Deliveries(_, _)
Deliveries(events, cb) ==
    IF events = <<>> THEN <<>>
    ELSE LET e == Head(events) IN
         (IF e.hasType
          THEN <<Emitted(e)>> \o (IF cb THEN <<Progress(e)>> ELSE <<>>)
          ELSE <<>>) \o Deliveries(Tail(events), cb)
\* the step ends a wipe on the blocking path whose elevated command ran
BlockingWipeRan(o, exec) ==
    /\ execReturns(o, exec)
    /\ ~exec.error

\* ------------------------------------------------------------------------
\* C22: on the blocking elevation path every event in the captured output
\* is delivered, in order, by the time the result is resolved: to 'event'
\* subscribers always, and to the progress callback when one was passed.
\* ------------------------------------------------------------------------
Cex_C22_CapturedEventsDelivered ==
    [][\A o \in Ops, exec \in ExecOutcomes :
          BlockingWipeRan(o, exec) =>
              /\ ops'[o].result.state = "resolved"
              /\ ops'[o].log =
                     Deliveries(parseEvents(jsonBuffer, exec.stdout).events, ops[o].cb)
      ]_vars

\* the captured output holds an error-kind event
HoldsErrorEvent(stdout) ==
    LET events == parseEvents(<<>>, stdout).events IN
    \E i \in 1..Len(events) : IsError(events[i])

\* ------------------------------------------------------------------------
\* C23: on the blocking elevation path the result is a success only if the
\* elevated command ended with exit code 0 and its captured output holds no
\* error-kind event; captured output with an error-kind event gives a
\* failure.
\* ------------------------------------------------------------------------
Cex_C23_CapturedErrorFails ==
    [][\A o \in Ops, exec \in ExecOutcomes :
          execReturns(o, exec) =>
              /\ ops'[o].result.state = "resolved"
              /\ ops'[o].result.success =>
                    (~exec.error /\ ~HoldsErrorEvent(exec.stdout))
              /\ (~exec.error /\ HoldsErrorEvent(exec.stdout)) =>
                    ~ops'[o].result.success
      ]_vars

\* ------------------------------------------------------------------------
\* One wipe and the stream of its child: the child writes a sequence of
\* objects and blanks, delivered to the stdout handler in chunks of any size
\* ------------------------------------------------------------------------
MaxStream == 3      \* objects and blanks the child writes
StreamSegments == {OInfo, OErrA, ONest, Blank}
StreamSeqs == UNION {[1..n -> StreamSegments] : n \in 1..MaxStream}

StreamInit ==
    /\ ServiceInit
    /\ pSegs \in StreamSeqs
    /\ pPos = 0
    /\ pOut = <<>>
    /\ pCutEsc = FALSE
    /\ NoRequests

\* the stdout 'data' callback of operation o receives the next n characters
childWrites(o, n) ==
    /\ ops[o].child = "running"
    /\ pPos + n <= Len(pText)
    /\ LET r == parseEvents(jsonBuffer, SubSeq(pText, pPos + 1, pPos + n)) IN
       /\ jsonBuffer' = r.buffer
       /\ pOut' = pOut \o r.events
       /\ ops' = [ops EXCEPT ![o] = HandleEvents(ops[o], r.events)]
    /\ pPos' = pPos + n
    /\ pCutEsc' = (pCutEsc \/ (pPos + n) \in EscPositions(pText, 1))
    /\ UNCHANGED <<pSegs, activeProcess, timeoutHandle, timers, grace, nOps,
                   nCancel, nData, qvars>>

StreamNext ==
    \/ \E cb \in BOOLEAN : (nOps = 0 /\ wipeTarget(cb))
    \/ \E cb \in BOOLEAN : (nOps = 0 /\ wipeWithElevatedProcess(cb, "sudo"))
    \/ \E n \in 1..Len(pText) : childWrites(1, n)
    \/ \E code \in ExitCodes : close(1, code)

StreamSpec == StreamInit /\ [][StreamNext]_vars

\* the objects whose closing brace has been received, in the order written
ObjectsReceived == SelectSeq(SegsEndingIn(1, 0, pPos), LAMBDA seg : seg # Blank)
\* what an operation forwarded to its sinks
Forwarded(log) == SelectSeq(log, LAMBDA x : x.ch \in {"event", "onProgress"})

\* ------------------------------------------------------------------------
\* C24: within one operation, running alone, the events are forwarded in
\* the order in which their objects were written to stdout: at every moment
\* the sinks have received exactly the events of the objects whose closing
\* brace has been received, each once, in the order of their closing braces.
\* ------------------------------------------------------------------------
Thm_C24_ForwardedInStreamOrder ==
    \A o \in 1..nOps :
        Forwarded(ops[o].log) = Deliveries(EventsOf(ObjectsReceived), ops[o].cb)

\* an error event and an info event forwarded in the order written while the
\* head of a third object waits in the buffer
Wit_C24_TwoForwardedThirdPartial ==
    /\ pSegs = <<OErrA, OInfo, OErrA>>
    /\ nOps = 1
    /\ ops[1].cb
    /\ pPos > SegEnd(2) /\ pPos < SegEnd(3)
    /\ jsonBuffer # <<>>
    /\ Len(Forwarded(ops[1].log)) = 4
    /\ ops[1].log[1].type = <<"e">>
    /\ ops[1].log[3].type = <<"i">>

\* the stderr texts an operation received
StderrReceived(log) == {log[i].message : i \in {j \in 1..Len(log) : log[j].ch = "stderr"}}
\* the texts a failure message is made of
TextsIn(error) == {error.parts[i] : i \in 1..Len(error.parts)}

\* ------------------------------------------------------------------------
\* C25: whatever the interleaving of stderr chunks and error-kind events,
\* the message of the failure a wipe ends with at the exit of its child
\* holds every non-empty stderr text received: an error event that arrives
\* after stderr text does not erase it.
\* ------------------------------------------------------------------------
Cex_C25_StderrKeptInMessage ==
    \A o \in Ops :
        (/\ IsWipe(o)
         /\ ops[o].result.by = "close"
         /\ ~ops[o].result.success) =>
            StderrReceived(ops[o].log) \subseteq TextsIn(ops[o].result.error)

\* ------------------------------------------------------------------------
\* C26: receiving stderr text does not settle the operation, release the
\* handle or disarm the timeout; a running operation is settled only by the
\* exit of its child (close, or the error of a failed start) or by a
\* timeout; and a wipe whose child exits with code 0 without an error-kind
\* event is a success, stderr text received or not.
\* ------------------------------------------------------------------------
Thm_C26_StderrDoesNotEnd ==
    [][/\ \A o \in Ops, data \in StderrTexts :
             stderrData(o, data) =>
                 /\ UNCHANGED <<activeProcess, timeoutHandle, timers, jsonBuffer>>
                 /\ ops'[o].result = ops[o].result
                 /\ ops'[o].child = ops[o].child
       /\ \A o \in Ops :
             (/\ ops[o].child = "running"
              /\ ops[o].result.state = "pending"
              /\ ops'[o].result.state # "pending") =>
                 ops'[o].result.by \in {"close", "error", "timeout"}
       /\ \A o \in Ops :
             (/\ ops'[o].kind \in {"wipe", "elevated"}
              /\ ops'[o].result.by = "close"
              /\ ops'[o].result.exitCode = "0"
              /\ ~ErrorSeen(ops'[o].log)) =>
                 ops'[o].result.success
      ]_vars

\* stderr text was received and the wipe ended as a success
Wit_C26_SuccessDespiteStderr ==
    \E o \in Ops :
        /\ ops[o].kind = "wipe"
        /\ StderrReceived(ops[o].log) # {}
        /\ ops[o].result.success
        /\ ops[o].result.by = "close"
        /\ ~isActive

\* ------------------------------------------------------------------------
\* C27: isActive() is true exactly when a process handle is held, and a
\* handle is held for as long as any operation's child is running, the
\* blocking elevated wipe included.
\* ------------------------------------------------------------------------
ChildRunning == \E o \in 1..nOps : ops[o].child = "running"

Cex_C27_HandleHeldWhileChildRuns == ChildRunning => isActive

\* ------------------------------------------------------------------------
\* C28: when the timeout of the operation whose handle is held fires, the
\* handle is cleared as part of the timeout: isActive() is false and the
\* timeout handle is gone after the callback, without a later exit of the
\* child.
\* ------------------------------------------------------------------------
TimedOutHeld(t) ==
    /\ timeoutFires(t)
    /\ activeProcess = t
    /\ ops[t].child = "running"

Cex_C28_TimeoutClearsHandle ==
    [][\A t \in Ops : TimedOutHeld(t) => (~isActive' /\ timeoutHandle' = 0)]_vars

\* ------------------------------------------------------------------------
\* C29: cancel() called while a handle is held leaves, when it returns,
\* isActive() false, the timeout of the held operation disarmed and the
\* parse buffer empty, whatever the state of the child.
\* ------------------------------------------------------------------------
Thm_C29_CancelClearsAtOnce ==
    [][(cancel /\ isActive) =>
          /\ ~isActive'
          /\ timeoutHandle' = 0
          /\ activeProcess \notin timers'
          /\ timeoutHandle \notin timers'
          /\ jsonBuffer' = <<>>
      ]_vars

\* cancel() has just returned for an operation whose child has not exited:
\* the 2 second timer is pending, nothing is held, the child is still running
Wit_C29_CancelledBeforeExit ==
    \E o \in 1..nOps :
        /\ ops[o].cancelled
        /\ ops[o].child = "running"
        /\ o \in grace
        /\ o \notin timers
        /\ ~isActive
        /\ timeoutHandle = 0
        /\ jsonBuffer = <<>>

\* ------------------------------------------------------------------------
\* C30: every operation whose child is running has its timeout armed, the
\* wait of a blocking elevated wipe for its elevated command included.
\* ------------------------------------------------------------------------
TimeoutArmed(o) == o \in timers

Cex_C30_TimeoutArmedWhileRunning ==
    \A o \in 1..nOps :
        (ops[o].child = "running" /\ ops[o].result.state = "pending") => TimeoutArmed(o)

\* ------------------------------------------------------------------------
\* A sink that throws.  Neither this.emit('event', ...) nor onProgress(...)
\* is called inside a try block in the stdout handler (lines 658-682 and
\* 480-504): an exception of a sink leaves the for loop and the handler.
\* ------------------------------------------------------------------------
MaxSink == 2        \* objects the child writes
SinkSegments == {OInfo, OErrA}
SinkSeqs == UNION {[1..n -> SinkSegments] : n \in 1..MaxSink}
Sinks == {"event", "onProgress"}

SinkInit ==
    /\ ServiceInit
    /\ pSegs \in SinkSeqs
    /\ pPos = 0
    /\ pOut = <<>>
    /\ pCutEsc = FALSE
    /\ NoRequests

\* the events of a chunk that have a type, in order
TypedEvents(events) == SelectSeq(events, LAMBDA e : e.hasType)

\* the for loop of lines 661-681 when the given sink throws on the k-th
\* event: the events before it are handled whole; for the k-th the listeners
\* are called (line 668) and, if it is the callback that throws, the callback
\* (line 672); lines 676-679 are not reached and the loop is left
ForwardUntilThrow(op, events, k, sink) ==
    LET typed == TypedEvents(events)
        before == ForwardWipeEvents(op, SubSeq(typed, 1, k - 1))
        e == typed[k]
    IN [before EXCEPT
          !.log = @ \o <<Emitted(e)>>
                    \o (IF sink = "onProgress" THEN <<Progress(e)>> ELSE <<>>)]

\* the stdout 'data' callback of operation o receives the next n characters
\* and the given sink throws on the k-th event parsed from them
sinkThrows(o, n, k, sink) ==
    /\ ops[o].child = "running"
    /\ ops[o].kind \in {"wipe", "elevated"}
    /\ pPos + n <= Len(pText)
    /\ sink = "onProgress" => ops[o].cb
    /\ LET r == parseEvents(jsonBuffer, SubSeq(pText, pPos + 1, pPos + n)) IN
       /\ k <= Len(TypedEvents(r.events))
       /\ jsonBuffer' = r.buffer
       /\ pOut' = pOut \o r.events
       /\ ops' = [ops EXCEPT ![o] = ForwardUntilThrow(ops[o], r.events, k, sink)]
    /\ pPos' = pPos + n
    /\ pCutEsc' = (pCutEsc \/ (pPos + n) \in EscPositions(pText, 1))
    /\ UNCHANGED <<pSegs, activeProcess, timeoutHandle, timers, grace, nOps,
                   nCancel, nData, qvars>>

SinkNext ==
    \/ \E cb \in BOOLEAN : (nOps = 0 /\ wipeTarget(cb))
    \/ \E n \in 1..Len(pText) : childWrites(1, n)
    \/ \E n \in 1..Len(pText), k \in 1..MaxSink, sink \in Sinks :
           sinkThrows(1, n, k, sink)
    \/ \E code \in ExitCodes : close(1, code)

SinkSpec == SinkInit /\ [][SinkNext]_vars

\* what the handler does with the same chunk when no sink throws
Unfailing(o, n) ==
    HandleEvents(ops[o], parseEvents(jsonBuffer, SubSeq(pText, pPos + 1, pPos + n)).events)

\* ------------------------------------------------------------------------
\* C31: a sink that fails while handling an event changes nothing for the
\* operation: the remaining events of the chunk are still forwarded and an
\* error event on which the sink failed is still recorded as an error, as
\* with a sink that does not fail.
\* ------------------------------------------------------------------------
Cex_C31_FailingSinkHarmless ==
    [][\A n \in 1..Len(pText), k \in 1..MaxSink, sink \in Sinks :
          sinkThrows(1, n, k, sink) =>
              /\ Forwarded(ops'[1].log) = Forwarded(Unfailing(1, n).log)
              /\ ops'[1].hasError = Unfailing(1, n).hasError
      ]_vars

\* ------------------------------------------------------------------------
\* C32: a wipe that fails to start or times out is settled with a failure
\* result (success false, with a message): its promise is never rejected.
\* ------------------------------------------------------------------------
Cex_C32_WipeFailuresAreResults ==
    \A o \in 1..nOps :
        (IsWipe(o) /\ ops[o].result.by \in {"error", "timeout"}) =>
            /\ ops[o].result.state = "resolved"
            /\ ~ops[o].result.success
            /\ ops[o].result.error # NoError

\* ------------------------------------------------------------------------
\* C33: the parse buffer is empty whenever no operation is in progress, the
\* return of a blocking elevated wipe whose captured output ends with an
\* incomplete object included.
\* ------------------------------------------------------------------------
NoOperationInProgress == \A o \in 1..nOps : ops[o].child # "running"

Cex_C33_BufferEmptyWhenIdle == NoOperationInProgress => jsonBuffer = <<>>

\* ------------------------------------------------------------------------
\* C34: every event the parser returns is one whole top-level object the
\* child wrote, never an object nested in another one or a part of one,
\* whatever stray characters came before it.
\* ------------------------------------------------------------------------
TopLevelObjects == {pSegs[k] : k \in {j \in 1..Len(pSegs) : IsObject(pSegs[j])}}

Cex_C34_OnlyTopLevelObjectsEmitted ==
    \A i \in 1..Len(pOut) : pOut[i].src \in TopLevelObjects

\* ------------------------------------------------------------------------
\* C35: a drive listing or system-info query that fails at the exit of its
\* child after error text was received (an error event or stderr text)
\* reports that text; a fallback message is used only when none was received.
\* ------------------------------------------------------------------------
IsQuery(o) == ops[o].kind \in {"list", "sysinfo"}

Cex_C35_QueryFailureCarriesText ==
    \A o \in 1..nOps :
        (/\ IsQuery(o)
         /\ ops[o].result.by = "close"
         /\ ops[o].result.state = "rejected"
         /\ ops[o].errorMessage # <<>>) =>
            ops[o].result.error = TextError(ops[o].errorMessage)

\* ------------------------------------------------------------------------
\* One wipe under the scheduling the runtime guarantees: an armed timer fires,
\* and a child that was sent SIGKILL exits.  A child may exit at any other
\* moment too, but nothing forces it to: it may ignore SIGTERM.
\* ------------------------------------------------------------------------
SigKilled(o) == \E i \in 1..Len(ops[o].log) : ops[o].log[i] = Kill("SIGKILL")

LiveNext ==
    \/ \E cb \in BOOLEAN : (nOps = 0 /\ wipeTarget(cb))
    \/ \E o \in Ops : \E data \in StdoutOf(ops[o].kind) : stdoutData(o, data)
    \/ \E o \in Ops : \E code \in ExitCodes : close(o, code)
    \/ \E t \in Ops : timeoutFires(t)
    \/ cancel
    \/ \E g \in Ops : graceFires(g)

Fairness ==
    /\ \A t \in Ops : WF_vars(timeoutFires(t))
    /\ \A g \in Ops : WF_vars(graceFires(g))
    /\ \A o \in Ops : WF_vars(SigKilled(o) /\ \E code \in ExitCodes : close(o, code))

LiveSpec == Init /\ [][LiveNext]_vars /\ Fairness

\* ------------------------------------------------------------------------
\* C36: every operation that spawned a child is eventually settled, given
\* only that a child exits once it was sent SIGKILL: so is a cancelled
\* operation whose child ignores SIGTERM.
\* ------------------------------------------------------------------------
Cex_C36_EveryOperationSettles ==
    \A o \in Ops : (ops[o].child = "running") ~> (ops[o].result.state # "pending")

\* ------------------------------------------------------------------------
\* C37: the grace timer of a cancelled operation leaves an operation that
\* was started after the cancel alone: it sends that operation's child no
\* signal and keeps its handle, its timeout and its buffer.
\* ------------------------------------------------------------------------
\* the grace timer of g fires while the handle of a later operation is held
GraceFiresOnLater(g) ==
    /\ graceFires(g)
    /\ activeProcess # 0
    /\ activeProcess # g

Cex_C37_GraceTimerSparesLaterOperation ==
    [][\A g \in Ops :
          GraceFiresOnLater(g) =>
              /\ ops'[activeProcess].log = ops[activeProcess].log
              /\ UNCHANGED <<activeProcess, timeoutHandle, timers, jsonBuffer>>
      ]_vars

\* ------------------------------------------------------------------------
\* C38: when the child of an operation exits (or fails to start) while the
\* handle of a later operation is held, the later operation keeps its
\* handle, its armed timeout and the text in the parse buffer.
\* ------------------------------------------------------------------------
\* 'close' or 'error' of operation o while another operation's handle is held
EndsUnderAnother(o) ==
    /\ (\E code \in ExitCodes : close(o, code)) \/ processError(o)
    /\ activeProcess # 0
    /\ activeProcess # o

Cex_C38_ExitReleasesOwnResourcesOnly ==
    [][\A o \in Ops :
          EndsUnderAnother(o) =>
              /\ activeProcess' = activeProcess
              /\ timeoutHandle' = timeoutHandle
              /\ (activeProcess \in timers) => (activeProcess \in timers')
              /\ jsonBuffer' = jsonBuffer
      ]_vars

\* ------------------------------------------------------------------------
\* C39: once cancel() has returned for an operation, nothing more is
\* forwarded to the sinks for it: the cancellation event is its last event,
\* whatever its child still writes to stdout.
\* ------------------------------------------------------------------------
Cex_C39_NothingForwardedAfterCancel ==
    [][\A o \in Ops :
          ops[o].cancelled => Forwarded(ops'[o].log) = Forwarded(ops[o].log)
      ]_vars

\* a call that starts a command through an elevation mechanism: sudo-prompt,
\* or a spawn of pkexec or sudo
IsElevatedLaunch(c) ==
    \/ c.call = "sudoPrompt.exec"
    \/ c.call = "spawn" /\ c.args[1] \in {Arg("pkexec"), Arg("sudo")}
\* an elevated path was entered
IsEscalationEntry(c) == c.call \in {"wipeWithElevatedProcess", "wipeWithWindowsElevation"}
EscalationAttempted == \E i \in 1..Len(calls) : IsEscalationEntry(calls[i])
\* lines 396 and 401-402: privilegesRequested as the direct path returns it
privilegesRequested(config, privilegeCheck) ==
    privilegeCheck.needsElevation /\ EscalationAllowed(config)

\* ------------------------------------------------------------------------
\* C40: a privilege-aware wipe requested with requestPrivileges false takes
\* the direct path whatever the privilege check reports: no elevated path is
\* entered, nothing is started through sudo-prompt, pkexec or sudo, and
\* privilegesRequested is false.  With requestPrivileges true or not set an
\* elevated path is entered exactly when the check reports needsElevation.
\* ------------------------------------------------------------------------
Thm_C40_EscalationOnlyIfRequested ==
    \A o \in 1..nOps :
        ops[o].kind \in WipeKinds =>
            LET privilegeCheck == checkPrivileges(request.target, world) IN
            /\ request.requestPrivileges = "false" =>
                  /\ ops[o].kind = "wipe"
                  /\ ~EscalationAttempted
                  /\ \A i \in 1..Len(calls) : ~IsElevatedLaunch(calls[i])
                  /\ ~privilegesRequested(request, privilegeCheck)
            /\ request.requestPrivileges # "false" =>
                  /\ EscalationAttempted <=> privilegeCheck.needsElevation
                  /\ (ops[o].kind # "wipe") <=> privilegeCheck.needsElevation

\* a request that forbids escalation, for a target the check says needs it,
\* running as a direct child
Wit_C40_ForbiddenEscalationRunsDirect ==
    /\ nOps = 1
    /\ request.requestPrivileges = "false"
    /\ checkPrivileges(request.target, world).needsElevation
    /\ ops[1].kind = "wipe"
    /\ ops[1].child = "running"
    /\ isActive

====
